---- MODULE Spec2Model ----
(***************************************************************************)
(* Procedural heightfield engine of zoseremsa: Terrain (two revisions of   *)
(* Terrain.cpp: the simple island-mask shaping and the layered coastal     *)
(* shaping), Ocean (Gerstner waves) and the statics they share.            *)
(*                                                                         *)
(* float is modelled as fixed point: the integer v stands for v / Scale.   *)
(* The libm functions (sqrt, pow, sin, cos, atan2) are computed in that    *)
(* fixed point by the approximations defined below.                        *)
(***************************************************************************)
EXTENDS Integers, Sequences, FiniteSets, TLC

\* ------------------------------------------------------------ fixed point

\* One unit of a float: v stands for v / Scale.
Scale == 1000

\* the function f as the table of its values: what a std::vector holds
Tabulate(f) == f @@ << >>

Half == Scale \div 2

Abs(a) == IF a < 0 THEN -a ELSE a

Min(a, b) == IF b < a THEN b ELSE a

Max(a, b) == IF a < b THEN b ELSE a

\* glm::clamp(x, lo, hi) == min(max(x, lo), hi)
Clamp(x, lo, hi) == Min(Max(x, lo), hi)

\* a * b of two floats
Mul(a, b) == (a * b) \div Scale

\* a / b of two floats, b # 0
Div(a, b) == IF b < 0 THEN ((-a) * Scale) \div (-b) ELSE (a * Scale) \div b

\* floor(x) as an int
Floor(x) == x \div Scale

\* x - floor(x)
Frac(x) == x - Floor(x) * Scale

\* glm::mix(a, b, t) == a * (1 - t) + b * t
Mix(a, b, t) == Mul(a, Scale - t) + Mul(b, t)

RECURSIVE ISqrtIter(_, _, _)
ISqrtIter(n, lo, hi) ==
    IF lo >= hi THEN lo
    ELSE LET mid == (lo + hi + 1) \div 2
         IN  IF mid * mid <= n THEN ISqrtIter(n, mid, hi)
             ELSE ISqrtIter(n, lo, mid - 1)

\* the integer square root of n >= 0 (46340^2 is the largest square of an int)
ISqrt(n) == ISqrtIter(n, 0, 46340)

\* sqrt(x) of a float x >= 0
Sqrt(x) == ISqrt(x * Scale)

\* sqrt(a*a + b*b): glm::distance / length of a 2-vector
Hypot2(a, b) ==
    LET m == Max(Abs(a), Abs(b))
        s == (m \div 30000) + 1
    IN  s * ISqrt((a \div s) * (a \div s) + (b \div s) * (b \div s))

\* glm::length of a 3-vector
Hypot3(a, b, c) ==
    LET m == Max(Abs(a), Max(Abs(b), Abs(c)))
        s == (m \div 25000) + 1
    IN  s * ISqrt((a \div s) * (a \div s) + (b \div s) * (b \div s)
                  + (c \div s) * (c \div s))

Ln2 == 693

\* ln(m) for m in [Half, Scale]: 2 * atanh((m-1)/(m+1)), three terms
LnMantissa(m) ==
    LET z  == Div(m - Scale, m + Scale)
        z2 == Mul(z, z)
        z3 == Mul(z2, z)
        z5 == Mul(z3, z2)
    IN  2 * (z + z3 \div 3 + z5 \div 5)

RECURSIVE Ln(_)
\* ln(x), x > 0, by halving or doubling x into [Half, Scale]
Ln(x) ==
    IF x > Scale THEN Ln2 + Ln((x + 1) \div 2)
    ELSE IF x < Half THEN Ln(2 * x) - Ln2
    ELSE LnMantissa(x)

RECURSIVE Exp(_)
\* exp(y): y is brought into (-Ln2, 0], then five terms of the series
Exp(y) ==
    IF y > 0 THEN 2 * Exp(y - Ln2)
    ELSE IF y <= -Ln2 THEN Exp(y + Ln2) \div 2
    ELSE LET y2 == Mul(y, y)
             y3 == Mul(y2, y)
             y4 == Mul(y3, y)
         IN  Scale + y + y2 \div 2 + y3 \div 6 + y4 \div 24

\* pow(x, p) for x >= 0, p > 0: pow(0, p) = 0, pow(1, p) = 1
Pow(x, p) == IF x <= 0 THEN 0 ELSE Exp(Mul(p, Ln(x)))

Pi == 3142

\* sin on [0, Pi]: 16 x (Pi - x) / (5 Pi^2 - 4 x (Pi - x))
SinHalfTurn(x) ==
    LET p == Mul(x, Pi - x)
    IN  Div(16 * p, 5 * Mul(Pi, Pi) - 4 * p)

\* sin(x), x in radians
Sin(x) ==
    LET r == x % (2 * Pi)
    IN  IF r <= Pi THEN SinHalfTurn(r) ELSE -SinHalfTurn(r - Pi)

\* cos(x), x in radians
Cos(x) == Sin(x + Pi \div 2)

\* atan(z) for 0 <= z <= 1: z * (Pi/4 + 0.273 * (1 - z))
AtanUnit(z) == Mul(z, Pi \div 4 + Mul(273, Scale - z))

\* atan2(y, x) in (-Pi, Pi]; atan2(0, 0) = 0
Atan2(y, x) ==
    LET ax == Abs(x)
        ay == Abs(y)
        a  == IF ax = 0 /\ ay = 0 THEN 0
              ELSE IF ay <= ax THEN AtanUnit(Div(ay, ax))
              ELSE Pi \div 2 - AtanUnit(Div(ax, ay))
        q  == IF x < 0 THEN Pi - a ELSE a
    IN  IF y < 0 THEN -q ELSE q

\* ---------------------------------------------------------- noise kernel

\* enum class TerrainType
TerrainTypes == {"ISLAND", "RIDGED", "VORONOI", "CANYON", "PLATEAUS"}

\* The two revisions of Terrain.cpp: "simple" is src/src/terrain/Terrain.cpp,
\* "layered" is the revision with the layered coastal height profile.
Revisions == {"simple", "layered"}

\* p has 256 entries, permutation 512
PermHalf == 256

PermSize == 2 * PermHalf

\* permutation[i], i from 0
PermAt(perm, i) == perm[i + 1]

fade(t) == Mul(Mul(Mul(t, t), t), Mul(t, 6 * t - 15 * Scale) + 10 * Scale)

lerp(t, a, b) == a + Mul(t, b - a)

grad(hash, x, y) ==
    LET h == hash % 8
        u == IF h < 4 THEN x ELSE y
        v == IF h < 4 THEN y ELSE x
    IN  (IF h % 2 = 1 THEN -u ELSE u) + (IF (h \div 2) % 2 = 1 THEN -v ELSE v)

perlin(perm, x, y) ==
    LET X  == Floor(x) % PermHalf
        Y  == Floor(y) % PermHalf
        xf == Frac(x)
        yf == Frac(y)
        u  == fade(xf)
        v  == fade(yf)
        A  == PermAt(perm, X) + Y
        AA == PermAt(perm, A)
        AB == PermAt(perm, A + 1)
        B  == PermAt(perm, X + 1) + Y
        BA == PermAt(perm, B)
        BB == PermAt(perm, B + 1)
    IN  lerp(v,
             lerp(u, grad(PermAt(perm, AA), xf, yf),
                     grad(PermAt(perm, BA), xf - Scale, yf)),
             lerp(u, grad(PermAt(perm, AB), xf, yf - Scale),
                     grad(PermAt(perm, BB), xf - Scale, yf - Scale)))

RECURSIVE fbmLoop(_, _, _, _, _, _, _)
\* the octave loop of fbm, from octave i with the running amplitude and frequency
fbmLoop(perm, x, y, octaves, i, amplitude, frequency) ==
    IF i >= octaves THEN 0
    ELSE Mul(amplitude, perlin(perm, Mul(x, frequency), Mul(y, frequency)))
         + fbmLoop(perm, x, y, octaves, i + 1, amplitude \div 2, 2 * frequency)

\* t is the Terrain (its noiseFrequency, size, voronoiCells, type, maxHeight)
fbm(perm, t, x, y, octaves) ==
    fbmLoop(perm, x, y, octaves, 0, Half, t.noiseFrequency)

ridged(perm, t, x, y) ==
    LET h == Scale - Abs(fbm(perm, t, x, y, 6))
    IN  Mul(h, h)

\* ---------------------------------------------------------- Voronoi field

NumVoronoiCells == 64

\* The 128 draws of uniform_real_distribution(0, 1) over mt19937(12345), in
\* pairs, in the order they are drawn.
VoronoiDraws ==
    << <<890, 131>>, <<40, 826>>, <<532, 956>>, <<462, 924>>, <<374, 155>>, <<892, 27>>,
       <<292, 399>>, <<807, 627>>, <<908, 556>>, <<840, 50>>, <<806, 931>>, <<364, 691>>,
       <<129, 833>>, <<318, 737>>, <<597, 364>>, <<795, 698>>, <<822, 899>>, <<832, 910>>,
       <<975, 656>>, <<812, 103>>, <<238, 379>>, <<699, 485>>, <<415, 639>>, <<759, 558>>,
       <<693, 913>>, <<25, 837>>, <<383, 299>>, <<6, 438>>, <<738, 376>>, <<493, 14>>,
       <<249, 347>>, <<797, 938>>, <<101, 735>>, <<976, 706>>, <<952, 928>>, <<410, 338>>,
       <<769, 335>>, <<83, 899>>, <<787, 717>>, <<444, 751>>, <<658, 361>>, <<378, 650>>,
       <<56, 78>>, <<92, 805>>, <<65, 224>>, <<152, 681>>, <<126, 257>>, <<438, 110>>,
       <<315, 351>>, <<761, 99>>, <<931, 326>>, <<427, 271>>, <<788, 453>>, <<83, 70>>,
       <<330, 192>>, <<838, 62>>, <<554, 571>>, <<462, 949>>, <<345, 884>>, <<431, 994>>,
       <<801, 942>>, <<379, 405>>, <<287, 451>>, <<765, 580>> >>

\* The order in which a build evaluates the two dis(gen) arguments of
\* glm::vec2(dis(gen), dis(gen)) is unspecified: left to right or right to left.
ArgOrders == {"ltr", "rtl"}

\* voronoiCells after initVoronoiCells
initVoronoiCells(argOrder, size) ==
    [i \in 1..NumVoronoiCells |->
        LET d == VoronoiDraws[i]
            a == IF argOrder = "ltr" THEN d[1] ELSE d[2]
            b == IF argOrder = "ltr" THEN d[2] ELSE d[1]
        IN  [x |-> Mul(a, size), y |-> Mul(b, size)]]

\* stands for the 1e9f minDist starts from: above every distance of the model
MinDistInit == 2000000000

\* the minimum that the loop over voronoiCells leaves in minDist
voronoiMinDist(cells, x, y) ==
    LET ds == {Hypot2(x - cells[i].x, y - cells[i].y) : i \in DOMAIN cells} \cup {MinDistInit}
    IN  CHOOSE d \in ds : \A e \in ds : d <= e

voronoi(t, x, y) ==
    LET minDist == voronoiMinDist(t.voronoiCells, x, y)
    IN  Scale - Clamp(Div(minDist, Mul(t.size, 100)), 0, Scale)

canyon(perm, t, x, y) ==
    LET base    == fbm(perm, t, Mul(x, 20), Mul(y, 20), 4)
        detail  == fbm(perm, t, Mul(x, 100), Mul(y, 100), 3)
        channel == Mul(Sin(Mul(x, 50) + 2 * detail), Half) + Half
    IN  Mul(base, Pow(channel, 3 * Scale)) + Mul(detail, 200)

plateaus(perm, t, x, y) ==
    LET steps == 5
        h     == fbm(perm, t, Mul(x, 30), Mul(y, 30), 5)
        q     == (Floor(h * steps) * Scale) \div steps
    IN  q + Mul(fbm(perm, t, Mul(x, 200), Mul(y, 200), 2), 100)

\* ------------------------------------------------------ masks and filters

\* islandMask of the simple revision
islandMaskSimple(t, x, y) ==
    LET nx == Div(x, t.size)
        ny == Div(y, t.size)
        d  == Hypot2(nx, ny)
    IN  Clamp(Scale - Pow(d, 2500), 0, Scale)

\* islandMask of the layered revision
islandMaskLayered(perm, t, x, y) ==
    LET nx             == Div(x, t.size)
        ny             == Div(y, t.size)
        distFromCenter == Hypot2(nx, ny)
        angle          == Atan2(ny, nx)
        shapeNoise     == Mul(perlin(perm, 2 * angle, 0), 150)
                          + Mul(perlin(perm, 5 * angle, 100 * Scale), 80)
        adjustedDist   == distFromCenter - shapeNoise
        mask           == Clamp(Scale - adjustedDist, 0, Scale)
    IN  Pow(mask, 1800)

coastlineVariation(perm, t, x, y) ==
    LET nx      == Div(x, t.size)
        ny      == Div(y, t.size)
        angle   == Atan2(ny, nx)
        coastal == Mul(perlin(perm, 3 * angle + 50 * Scale, 0), Half) + Half
                   + Mul(perlin(perm, 7 * angle + 150 * Scale, 100 * Scale), 250)
    IN  Clamp(coastal, 0, Scale)

erosionFilter(height, slope) ==
    LET erosion == Clamp(2 * slope, 0, Scale)
    IN  Mul(height, Scale - Mul(erosion, 300))

\* ------------------------------------------------------ height computation

\* the switch on type of the simple revision's finalHeight
baseHeightSimple(perm, t, x, y) ==
    CASE t.type = "ISLAND"   -> Pow(Max(fbm(perm, t, Mul(x, 50), Mul(y, 50), 5), 0), 1200)
      [] t.type = "RIDGED"   -> ridged(perm, t, Mul(x, 30), Mul(y, 30))
      [] t.type = "VORONOI"  -> voronoi(t, x, y)
      [] t.type = "CANYON"   -> canyon(perm, t, x, y)
      [] t.type = "PLATEAUS" -> plateaus(perm, t, x, y)

\* finalHeight without the multiplication by maxHeight
finalHeightSimpleUnscaled(perm, t, x, y) ==
    Mul(baseHeightSimple(perm, t, x, y), islandMaskSimple(t, x, y))

\* finalHeight of the simple revision
finalHeightSimple(perm, t, x, y) ==
    LET h == Mul(baseHeightSimple(perm, t, x, y), islandMaskSimple(t, x, y))
    IN  Mul(h, t.maxHeight)

\* the switch on type of the layered revision's finalHeight
baseNoiseLayered(perm, t, x, y) ==
    CASE t.type = "ISLAND"   -> fbm(perm, t, Mul(x, 40), Mul(y, 40), 6)
      [] t.type = "RIDGED"   -> ridged(perm, t, Mul(x, 30), Mul(y, 30))
      [] t.type = "VORONOI"  -> voronoi(t, x, y)
      [] t.type = "CANYON"   -> canyon(perm, t, x, y)
      [] t.type = "PLATEAUS" -> plateaus(perm, t, x, y)

\* oceanFloor, in float units
OceanFloor == -15

\* the land band of the layered profile (islandShape >= 0.40) once the
\* height e before the peak and crater adjustment is known
layeredPeak(islandShape, baseNoise, e) ==
    IF islandShape > 850
    THEN IF baseNoise > Half THEN e + 8 * Div(islandShape - 850, 150)
         ELSE e - 4 * Div(islandShape - 850, 150)
    ELSE e

\* the land band of the layered profile: tt is (islandShape - 0.40) / 0.60
layeredLand(perm, t, x, y, islandShape, baseNoise, coastType, tt) ==
    layeredPeak(islandShape, baseNoise,
                Mix(IF coastType > 550 THEN Scale ELSE 5 * Scale,
                    Mul(Mul(t.maxHeight, tt), baseNoise), Pow(tt, 700))
                + Mul(Mul(fbm(perm, t, Mul(x, 120), Mul(y, 120), 3), 2500), tt))

\* the beach of the coastal band: e is the beach slope, ripple the sand ripple
layeredBeach(e, ripple) ==
    IF e > -Scale /\ e < 2 * Scale
    THEN e + Mul(ripple, Scale - Mul(Abs(e), Half))
    ELSE e

\* the coastal band of the layered profile: tt is (islandShape - 0.25) / 0.15
layeredCoast(perm, t, x, y, coastType, tt) ==
    IF coastType > 550
    THEN layeredBeach(Mix(-3 * Scale, Scale, Pow(tt, 600)),
                      Mul(Mul(Sin(4 * x), Cos(4 * y)), 120))
    ELSE Mix(-3 * Scale, 5 * Scale, Pow(tt, 3 * Scale))
         + Mul(fbm(perm, t, Mul(x, 250), Mul(y, 250), 3), 1200)

\* the layered profile with an ocean floor that scales with maxHeight
layeredProfileScaledFloor(perm, t, x, y, islandShape, baseNoise, coastType) ==
    IF islandShape < 50 THEN Mul(OceanFloor * Scale, t.maxHeight)
    ELSE IF islandShape < 250
    THEN Mix(OceanFloor * Scale, -3 * Scale, Pow(Div(islandShape - 50, 200), 1500))
    ELSE IF islandShape < 400
    THEN layeredCoast(perm, t, x, y, coastType, Div(islandShape - 250, 150))
    ELSE layeredLand(perm, t, x, y, islandShape, baseNoise, coastType,
                     Div(islandShape - 400, 600))

\* the bands of the layered profile, by islandShape
layeredProfile(perm, t, x, y, islandShape, baseNoise, coastType) ==
    IF islandShape < 50 THEN OceanFloor * Scale
    ELSE IF islandShape < 250
    THEN Mix(OceanFloor * Scale, -3 * Scale, Pow(Div(islandShape - 50, 200), 1500))
    ELSE IF islandShape < 400
    THEN layeredCoast(perm, t, x, y, coastType, Div(islandShape - 250, 150))
    ELSE layeredLand(perm, t, x, y, islandShape, baseNoise, coastType,
                     Div(islandShape - 400, 600))

\* finalHeight of the layered revision
finalHeightLayered(perm, t, x, y) ==
    layeredProfile(perm, t, x, y,
                   islandMaskLayered(perm, t, x, y),
                   Clamp(Mul(baseNoiseLayered(perm, t, x, y) + Scale, Half), 0, Scale),
                   coastlineVariation(perm, t, x, y))

\* finalHeight that also reads what the last pass left in the vertex buffer
finalHeightDrifting(rev, perm, t, x, y) ==
    (IF rev = "simple" THEN finalHeightSimple(perm, t, x, y)
     ELSE finalHeightLayered(perm, t, x, y)) + Len(t.vbo)

\* finalHeight of revision rev
finalHeight(rev, perm, t, x, y) ==
    IF rev = "simple" THEN finalHeightSimple(perm, t, x, y)
    ELSE finalHeightLayered(perm, t, x, y)

\* ------------------------------------------------------------ Terrain mesh

Vec3(x, y, z) == [x |-> x, y |-> y, z |-> z]

VSub(a, b) == Vec3(a.x - b.x, a.y - b.y, a.z - b.z)

VAdd(a, b) == Vec3(a.x + b.x, a.y + b.y, a.z + b.z)

\* glm::cross
Cross(a, b) ==
    Vec3(Mul(a.y, b.z) - Mul(a.z, b.y),
         Mul(a.z, b.x) - Mul(a.x, b.z),
         Mul(a.x, b.y) - Mul(a.y, b.x))

\* glm::length
Length(v) == Hypot3(v.x, v.y, v.z)

\* v / len, len > 0
VDiv(v, len) ==
    LET m == Max(Abs(v.x), Max(Abs(v.y), Abs(v.z)))
        s == (m \div 1000000) + 1
    IN  Vec3(((v.x \div s) * Scale) \div Max(len \div s, 1),
             ((v.y \div s) * Scale) \div Max(len \div s, 1),
             ((v.z \div s) * Scale) \div Max(len \div s, 1))

\* vertices of a grid of resolution r
NumVertices(r) == (r + 1) * (r + 1)

\* the vertex generateGrid pushes for column x of row z
gridVertex(rev, perm, t, x, z) ==
    LET fx == (x * Scale) \div t.resolution
        fz == (z * Scale) \div t.resolution
        wx == Mul(fx - Half, t.size)
        wz == Mul(fz - Half, t.size)
        wy == finalHeight(rev, perm, t, wx, wz)
    IN  [pos |-> Vec3(wx, wy, wz), uv |-> [x |-> fx, y |-> fz]]

\* the index list with the cells pushed column by column (x outer, z inner)
gridIndicesColumnMajor(r) ==
    Tabulate([k \in 1..(6 * r * r) |->
        LET c  == (k - 1) \div 6
            j  == (k - 1) % 6
            x  == c \div r
            z  == c % r
            i0 == z * (r + 1) + x
            i1 == i0 + 1
            i2 == i0 + (r + 1)
            i3 == i2 + 1
        IN  CASE j = 0 -> i0 [] j = 1 -> i2 [] j = 2 -> i1
              [] j = 3 -> i1 [] j = 4 -> i2 [] j = 5 -> i3])

\* the index list with both triangles of a cell wound the other way:
\* cell (x, z) pushes i0, i1, i2, i1, i3, i2
gridIndicesClockwise(r) ==
    Tabulate([k \in 1..(6 * r * r) |->
        LET c  == (k - 1) \div 6
            j  == (k - 1) % 6
            z  == c \div r
            x  == c % r
            i0 == z * (r + 1) + x
            i1 == i0 + 1
            i2 == i0 + (r + 1)
            i3 == i2 + 1
        IN  CASE j = 0 -> i0 [] j = 1 -> i1 [] j = 2 -> i2
              [] j = 3 -> i1 [] j = 4 -> i3 [] j = 5 -> i2])

\* the index list both generateGrid and generateMesh build for resolution r:
\* cell (x, z) pushes i0, i2, i1, i1, i2, i3
gridIndices(r) ==
    Tabulate([k \in 1..(6 * r * r) |->
        LET c  == (k - 1) \div 6
            j  == (k - 1) % 6
            z  == c \div r
            x  == c % r
            i0 == z * (r + 1) + x
            i1 == i0 + 1
            i2 == i0 + (r + 1)
            i3 == i2 + 1
        IN  CASE j = 0 -> i0 [] j = 1 -> i2 [] j = 2 -> i1
              [] j = 3 -> i1 [] j = 4 -> i2 [] j = 5 -> i3])

\* the arrays generateGrid leaves, vs being the vertices it pushed
gridArrays(t, vs) ==
    [t EXCEPT !.positions = Tabulate([i \in DOMAIN vs |-> vs[i].pos]),
              !.normals   = << >>,
              !.uvs       = Tabulate([i \in DOMAIN vs |-> vs[i].uv]),
              !.indices   = gridIndices(t.resolution)]

\* Terrain::generateGrid: the four arrays cleared and refilled, rows z outer
generateGrid(rev, perm, t) ==
    gridArrays(t, Tabulate([i \in 1..NumVertices(t.resolution) |->
                              gridVertex(rev, perm, t, (i - 1) % (t.resolution + 1),
                                         (i - 1) \div (t.resolution + 1))]))

\* the face normal of triangle k: cross(edge1, edge2)
faceCross(positions, indices, k) ==
    Cross(VSub(positions[indices[3 * k - 1] + 1], positions[indices[3 * k - 2] + 1]),
          VSub(positions[indices[3 * k] + 1], positions[indices[3 * k - 2] + 1]))

RECURSIVE addFaces(_, _, _, _, _)
\* n after the face loop has added to it, in their order, the face normals of
\* the triangles ks, once for each corner of the triangle that is vertex v
addFaces(positions, indices, ks, v, n) ==
    IF ks = {} THEN n
    ELSE LET k == CHOOSE j \in ks : \A l \in ks : j <= l
             f == faceCross(positions, indices, k)
             c == Cardinality({j \in 0..2 : indices[3 * k - j] = v})
         IN  addFaces(positions, indices, ks \ {k}, v,
                      Vec3(n.x + c * f.x, n.y + c * f.y, n.z + c * f.z))

\* the face loop of computeNormals from triangle k on: acc is normals so far;
\* vertex v receives the face normals of the triangles it is a corner of
accumulateFaces(positions, indices, k, acc) ==
    Tabulate([i \in DOMAIN acc |->
        addFaces(positions, indices,
                 {j \in k..(Len(indices) \div 3) :
                     (i - 1) \in {indices[3 * j - 2], indices[3 * j - 1], indices[3 * j]}},
                 i - 1, acc[i])])

\* the normalisation with the zero vector where the length is too small
normalizeSafeToZero(n) ==
    LET len == Length(n)
    IN  IF len > Scale \div 10000 THEN VDiv(n, len) ELSE Vec3(0, 0, 0)

\* n = len > 0.0001f ? n / len : vec3(0, 1, 0)
normalizeSafe(n) ==
    LET len == Length(n)
    IN  IF len > Scale \div 10000 THEN VDiv(n, len) ELSE Vec3(0, Scale, 0)

\* computeNormals with normals sized by the index list
computeNormalsPerIndex(t) ==
    LET n       == Len(t.indices)
        resized == Tabulate([i \in 1..n |->
                      IF i <= Len(t.normals) THEN t.normals[i] ELSE Vec3(0, 0, 0)])
        summed  == accumulateFaces(t.positions, t.indices, 1, resized)
    IN  [t EXCEPT !.normals = Tabulate([i \in 1..n |-> normalizeSafe(summed[i])])]

\* Terrain::computeNormals
computeNormals(t) ==
    LET n       == Len(t.positions)
        resized == Tabulate([i \in 1..n |->
                      IF i <= Len(t.normals) THEN t.normals[i] ELSE Vec3(0, 0, 0)])
        summed  == accumulateFaces(t.positions, t.indices, 1, resized)
    IN  [t EXCEPT !.normals = Tabulate([i \in 1..n |-> normalizeSafe(summed[i])])]

\* Terrain::updateBuffers, and the glBufferData calls of the constructor
updateBuffers(t) ==
    [t EXCEPT !.vbo = t.positions, !.nbo = t.normals, !.tbo = t.uvs,
              !.ebo = t.indices, !.indexCount = Len(t.indices)]

\* Terrain::regenerate
regenerate(rev, perm, t) == updateBuffers(computeNormals(generateGrid(rev, perm, t)))

\* ----------------------------------------------------- Terrain::getHeightAt

\* world coordinate to grid coordinate: (world / size + 0.5f) * resolution
gridCoord(t, world) == (Div(world, t.size) + Half) * t.resolution

\* the range guard with > in place of >=
outOfRangeInclusive(t, fx, fz) ==
    \/ fx < 0
    \/ fx > t.resolution * Scale
    \/ fz < 0
    \/ fz > t.resolution * Scale

\* the range guard: true when the query returns 0.f early
outOfRange(t, fx, fz) ==
    \/ fx < 0
    \/ fx >= t.resolution * Scale
    \/ fz < 0
    \/ fz >= t.resolution * Scale

\* x1 and z1: std::min(i + 1, resolution) in src/terrain/Terrain.cpp,
\* std::min(i + 1, resolution - 1) in the layered revision
neighbor(rev, i, resolution) ==
    IF rev = "simple" THEN Min(i + 1, resolution) ELSE Min(i + 1, resolution - 1)

\* cornerIndex counting vertices from 1
cornerIndexOneBased(resolution, x, z) == z * (resolution + 1) + x + 1

\* z * (resolution + 1) + x
cornerIndex(resolution, x, z) == z * (resolution + 1) + x

\* positions[idx].y; a read outside the vector gives whatever is there
heightRead(positions, idx, garbage) ==
    IF idx + 1 \in DOMAIN positions THEN positions[idx + 1].y ELSE garbage

\* h00 * (1 - tx) + h10 * tx, then the same along z
bilinear(h00, h10, h01, h11, tx, tz) ==
    LET h0 == Mul(h00, Scale - tx) + Mul(h10, tx)
        h1 == Mul(h01, Scale - tx) + Mul(h11, tx)
    IN  Mul(h0, Scale - tz) + Mul(h1, tz)

\* Terrain::getHeightAt: what it returned and the indices of positions it read
getHeightAt(rev, t, worldX, worldZ, garbage) ==
    LET fx == gridCoord(t, worldX)
        fz == gridCoord(t, worldZ)
        x0 == Floor(fx)
        z0 == Floor(fz)
        x1 == neighbor(rev, x0, t.resolution)
        z1 == neighbor(rev, z0, t.resolution)
        tx == fx - x0 * Scale
        tz == fz - z0 * Scale
        idx00 == cornerIndex(t.resolution, x0, z0)
        idx10 == cornerIndex(t.resolution, x1, z0)
        idx01 == cornerIndex(t.resolution, x0, z1)
        idx11 == cornerIndex(t.resolution, x1, z1)
    IN  IF outOfRange(t, fx, fz)
        THEN [worldX |-> worldX, worldZ |-> worldZ, passed |-> FALSE,
              reads |-> << >>, ret |-> 0]
        ELSE [worldX |-> worldX, worldZ |-> worldZ, passed |-> TRUE,
              reads |-> <<idx00, idx10, idx01, idx11>>,
              ret |-> bilinear(heightRead(t.positions, idx00, garbage),
                               heightRead(t.positions, idx10, garbage),
                               heightRead(t.positions, idx01, garbage),
                               heightRead(t.positions, idx11, garbage), tx, tz)]

\* ------------------------------------------------------------------ Ocean

\* waves after initializeWaves: two large, two medium, four small; the small
\* waves' directions are (cos, sin) of the angles drawn from mt19937(42)
initializeWaves ==
    << [wavelength |-> 30000, amplitude |-> 1500, speed |-> 1000, direction |-> [x |-> 958, y |-> 287]],
       [wavelength |-> 25000, amplitude |-> 1200, speed |-> 900,  direction |-> [x |-> 447, y |-> 894]],
       [wavelength |-> 15000, amplitude |-> 800,  speed |-> 1200, direction |-> [x |-> -759, y |-> 651]],
       [wavelength |-> 12000, amplitude |-> 600,  speed |-> 1100, direction |-> [x |-> 894, y |-> -447]],
       [wavelength |-> 5000,  amplitude |-> 300,  speed |-> 1300, direction |-> [x |-> 288, y |-> -958]],
       [wavelength |-> 7000,  amplitude |-> 250,  speed |-> 1400, direction |-> [x |-> 406, y |-> 914]],
       [wavelength |-> 9000,  amplitude |-> 200,  speed |-> 1500, direction |-> [x |-> 185, y |-> -983]],
       [wavelength |-> 11000, amplitude |-> 150,  speed |-> 1600, direction |-> [x |-> -820, y |-> -572]] >>

\* phi of one wave at (x, z, t)
wavePhase(o, wave, x, z, t) ==
    LET k == Div((2 * Pi), wave.wavelength)
        w == Mul(wave.speed, o.waveSpeed)
    IN  Mul(k, Mul(wave.direction.x, x) + Mul(wave.direction.y, z) - Mul(w, t))

RECURSIVE gerstnerHeightLoop(_, _, _, _, _)
gerstnerHeightLoop(o, i, x, z, t) ==
    IF i > Len(o.waves) THEN 0
    ELSE Mul(Mul(o.waves[i].amplitude, o.waveHeight), Sin(wavePhase(o, o.waves[i], x, z, t)))
         + gerstnerHeightLoop(o, i + 1, x, z, t)

gerstnerWaveHeight(o, x, z, t) == gerstnerHeightLoop(o, 1, x, z, t)

RECURSIVE gerstnerNormalLoop(_, _, _, _, _)
\* what the loop of gerstnerWaveNormal subtracts from normal.x and normal.z
gerstnerNormalLoop(o, i, x, z, t) ==
    IF i > Len(o.waves) THEN [x |-> 0, z |-> 0]
    ELSE LET wave      == o.waves[i]
             k         == Div((2 * Pi), wave.wavelength)
             amplitude == Mul(wave.amplitude, o.waveHeight)
             c         == Cos(wavePhase(o, wave, x, z, t))
             rest      == gerstnerNormalLoop(o, i + 1, x, z, t)
         IN  [x |-> Mul(Mul(Mul(k, amplitude), wave.direction.x), c) + rest.x,
              z |-> Mul(Mul(Mul(k, amplitude), wave.direction.y), c) + rest.z]

\* gerstnerWaveNormal adding each wave's term to normal.x and normal.z
gerstnerWaveNormalAdding(o, x, z, t) ==
    LET d == gerstnerNormalLoop(o, 1, x, z, t)
        n == Vec3(d.x, Scale, d.z)
    IN  VDiv(n, Length(n))

gerstnerWaveNormal(o, x, z, t) ==
    LET d == gerstnerNormalLoop(o, 1, x, z, t)
        n == Vec3(0 - d.x, Scale, 0 - d.z)
    IN  VDiv(n, Length(n))

\* Ocean::getHeightAt
oceanGetHeightAt(o, worldX, worldZ, t) == gerstnerWaveHeight(o, worldX, worldZ, t)

\* Ocean::generateMesh: a flat grid, uv repeated ten times
generateMesh(o) ==
    LET n == NumVertices(o.resolution)
        r == o.resolution
    IN  [o EXCEPT
           !.positions = Tabulate([i \in 1..n |->
                            Vec3(Mul(((((i - 1) % (r + 1)) * Scale) \div r) - Half, o.size), 0,
                                 Mul(((((i - 1) \div (r + 1)) * Scale) \div r) - Half, o.size))]),
           !.normals   = Tabulate([i \in 1..n |-> Vec3(0, Scale, 0)]),
           !.uvs       = Tabulate([i \in 1..n |->
                            [x |-> 10 * ((((i - 1) % (r + 1)) * Scale) \div r),
                             y |-> 10 * ((((i - 1) \div (r + 1)) * Scale) \div r)]]),
           !.indices   = gridIndices(r)]

\* Ocean::updateMesh moving every vertex sideways by its height as well
updateMeshDisplacing(o) ==
    LET r  == o.resolution
        wx(i) == Mul(((((i - 1) % (r + 1)) * Scale) \div r) - Half, o.size)
        wz(i) == Mul(((((i - 1) \div (r + 1)) * Scale) \div r) - Half, o.size)
        pos == Tabulate([i \in 1..NumVertices(r) |->
                  [o.positions[i] EXCEPT !.y = gerstnerWaveHeight(o, wx(i), wz(i), o.time),
                                         !.x = @ + gerstnerWaveHeight(o, wx(i), wz(i), o.time)]])
        nor == Tabulate([i \in 1..NumVertices(r) |->
                  gerstnerWaveNormal(o, wx(i), wz(i), o.time)])
    IN  [o EXCEPT !.positions = pos, !.normals = nor, !.vbo = pos, !.nbo = nor]

\* the vertex loop of Ocean::updateMesh: y and normal of every vertex at o.time
patchVertices(o) ==
    LET r  == o.resolution
        wx(i) == Mul(((((i - 1) % (r + 1)) * Scale) \div r) - Half, o.size)
        wz(i) == Mul(((((i - 1) \div (r + 1)) * Scale) \div r) - Half, o.size)
    IN  [o EXCEPT
           !.positions = Tabulate([i \in 1..NumVertices(r) |->
                            [o.positions[i] EXCEPT
                               !.y = gerstnerWaveHeight(o, wx(i), wz(i), o.time)]]),
           !.normals   = Tabulate([i \in 1..NumVertices(r) |->
                            gerstnerWaveNormal(o, wx(i), wz(i), o.time)])]

\* the two glBufferSubData calls that end Ocean::updateMesh
uploadPatch(o) == [o EXCEPT !.vbo = o.positions, !.nbo = o.normals]

\* Ocean::updateMesh: the vertex loop, then the upload
updateMesh(o) == uploadPatch(patchVertices(o))

\* Ocean::update patching the mesh before it advances the time
oceanUpdateStale(o, dt) == [updateMesh(o) EXCEPT !.time = @ + Mul(dt, o.waveFrequency)]

\* Ocean::update
oceanUpdate(o, dt) == updateMesh([o EXCEPT !.time = @ + Mul(dt, o.waveFrequency)])

\* the result of std::shuffle over 0..255 for the k-th seed of the model
shuffled(k) ==
    Tabulate([i \in 1..PermHalf |-> ((i + k) * (2 * (i + k) + 1) + 37 * k) % PermHalf])

\* permutation after the fill loop: p twice
filledPermutation(p) == Tabulate([i \in 1..PermSize |-> p[((i - 1) % PermHalf) + 1]])

\* -------------------------------------------------------------- the bounds

\* seeds std::random_device may give the shuffle
NumShuffles == 2

\* the largest resolution an entity is constructed with
MaxResolution == 2

\* the latest time an Ocean is updated to
MaxTime == 500

Resolutions == 1..MaxResolution

\* size arguments, in float units times Scale
Sizes == {10 * Scale}

\* height arguments and setHeightScale arguments
Heights == {0, 20 * Scale}

\* setNoiseFrequency arguments
Freqs == {Scale, 2 * Scale}

\* dt arguments of update
Dts == {250, 500}

\* waveHeight arguments of the Ocean constructor
WaveHeights == {2 * Scale}

\* worldX and worldZ arguments of getHeightAt
QueryCoords == {-6 * Scale, -5 * Scale, -2500, 0, 1250, 4999, 5 * Scale}

\* what a read outside positions can give
Garbage == {-7 * Scale, 7 * Scale}

\* the Terrain and the Ocean of the scene
TerrainIds == {1}

OceanIds == {1}

\* the members of a Terrain after the member initializers of the constructor
\* and of Terrain.h, before the constructor's body
newTerrain(resolution, size, height, type) ==
    [resolution |-> resolution, size |-> size, maxHeight |-> height,
     noiseFrequency |-> Scale, type |-> type, voronoiCells |-> << >>,
     positions |-> << >>, normals |-> << >>, uvs |-> << >>, indices |-> << >>,
     vbo |-> << >>, nbo |-> << >>, tbo |-> << >>, ebo |-> << >>, indexCount |-> 0]

\* ------------------------------------------------- the rebuilds, tabulated

\* the tables the shuffle can leave in Terrain::permutation
Tables == Tabulate([k \in 1..NumShuffles |-> filledPermutation(shuffled(k))])

\* the cell lists initVoronoiCells can leave in a Terrain
Cells == Tabulate([o \in ArgOrders, s \in Sizes |-> initVoronoiCells(o, s)])

\* regenerate for every combination of parameters, each computed once
MeshTable ==
    Tabulate([key \in Revisions \X (1..NumShuffles) \X ArgOrders \X Sizes
                      \X Resolutions \X Heights \X TerrainTypes \X Freqs |->
        regenerate(key[1], Tables[key[2]],
                   [newTerrain(key[5], key[4], key[6], key[7])
                      EXCEPT !.noiseFrequency = key[8],
                             !.voronoiCells = Cells[key[3], key[4]]])])

\* t with the arrays, the buffers and indexCount of m: what a rebuild
\* overwrites; the other members of t stay
withMesh(t, m) ==
    [t EXCEPT !.positions = m.positions, !.normals = m.normals, !.uvs = m.uvs,
              !.indices = m.indices, !.vbo = m.vbo, !.nbo = m.nbo, !.tbo = m.tbo,
              !.ebo = m.ebo, !.indexCount = m.indexCount]

\* regenerate(rev, perm, t), read off MeshTable when perm is a table the
\* shuffle leaves and the cells are a list initVoronoiCells leaves
Rebuilt(rev, perm, t) ==
    IF /\ \E j \in 1..NumShuffles : Tables[j] = perm
       /\ \E a \in ArgOrders : Cells[a, t.size] = t.voronoiCells
    THEN withMesh(t, MeshTable[<<rev,
                                 CHOOSE j \in 1..NumShuffles : Tables[j] = perm,
                                 CHOOSE a \in ArgOrders : Cells[a, t.size] = t.voronoiCells,
                                 t.size, t.resolution, t.maxHeight, t.type,
                                 t.noiseFrequency>>])
    ELSE regenerate(rev, perm, t)

\* --------------------------------------------------------- Terrain methods

\* the work a call performed: which of these it ran
FullRebuild == {"generateGrid", "computeNormals", "updateBuffers"}

\* regenerate that pushes the 64 Voronoi cells once more
regenerateCallReseeding(rev, perm, t) ==
    [t |-> [Rebuilt(rev, perm, t) EXCEPT !.voronoiCells = t.voronoiCells \o t.voronoiCells],
     work |-> FullRebuild]

\* Terrain::regenerate as a call: the Terrain after it and the work done
regenerateCall(rev, perm, t) == [t |-> Rebuilt(rev, perm, t), work |-> FullRebuild]

\* setType without the early return
setTypeAlways(rev, perm, t, newType) ==
    regenerateCall(rev, perm, [t EXCEPT !.type = newType])

\* Terrain::setType
setType(rev, perm, t, newType) ==
    IF t.type = newType THEN [t |-> t, work |-> {}]
    ELSE regenerateCall(rev, perm, [t EXCEPT !.type = newType])

\* setHeightScale that stores the scale and leaves the mesh
setHeightScaleOnly(rev, perm, t, scale) ==
    [t |-> [t EXCEPT !.maxHeight = scale], work |-> {}]

\* Terrain::setHeightScale
setHeightScale(rev, perm, t, scale) ==
    regenerateCall(rev, perm, [t EXCEPT !.maxHeight = scale])

\* Terrain::setNoiseFrequency
setNoiseFrequency(rev, perm, t, freq) ==
    regenerateCall(rev, perm, [t EXCEPT !.noiseFrequency = freq])

\* the body of Terrain::Terrain from initVoronoiCells on: the cells, the grid,
\* the normals, and the four glBufferData uploads
constructMesh(rev, argOrder, perm, t0) ==
    LET t1 == [t0 EXCEPT !.voronoiCells = initVoronoiCells(argOrder, t0.size)]
    IN  Rebuilt(rev, perm, t1)

\* ------------------------------------------------------------------ state

VARIABLES
    build,              \* [revision, argOrder]: which Terrain.cpp, which compiler
    shader,             \* Terrain::shader is non-null
    instanceCount,      \* Terrain::instanceCount
    permutation,        \* Terrain::permutation
    terrains,           \* the live Terrains, by id
    oceanShader,        \* Ocean::shader is non-null
    oceanInstanceCount, \* Ocean::instanceCount
    oceans,             \* the live Oceans, by id
    last,               \* the last call: [op, id, same, work, q]
    ctors               \* the Terrain constructors in progress on their threads

vars == <<build, shader, instanceCount, permutation, terrains,
          oceanShader, oceanInstanceCount, oceans, last, ctors>>

terrainStatics == <<shader, instanceCount, permutation>>

oceanVars == <<oceanShader, oceanInstanceCount, oceans>>

\* the q of a call that is not getHeightAt
NoQuery == [worldX |-> 0, worldZ |-> 0, passed |-> FALSE, reads |-> << >>, ret |-> 0]

Call(op, id, same, work) ==
    [op |-> op, id |-> id, same |-> same, work |-> work, q |-> NoQuery]

Init ==
    /\ build \in [revision : Revisions, argOrder : ArgOrders]
    /\ shader = FALSE
    /\ instanceCount = 0
    /\ permutation = << >>
    /\ terrains = << >>
    /\ oceanShader = FALSE
    /\ oceanInstanceCount = 0
    /\ oceans = << >>
    /\ last = Call("start", 0, FALSE, {})
    /\ ctors = << >>

\* f with id mapped to v
Put(f, id, v) == Tabulate([i \in DOMAIN f \cup {id} |-> IF i = id THEN v ELSE f[i]])

\* f without id
Drop(f, id) == Tabulate([i \in DOMAIN f \ {id} |-> f[i]])

\* Terrain::Terrain
TerrainConstruct(id, resolution, size, height, type) ==
    /\ id \notin DOMAIN terrains
    /\ instanceCount' = instanceCount + 1
    /\ shader' = TRUE
    /\ \E k \in 1..NumShuffles :
         permutation' = IF permutation = << >> THEN Tables[k]
                        ELSE permutation
    /\ terrains' = Put(terrains, id,
                       constructMesh(build.revision, build.argOrder, permutation',
                                     newTerrain(resolution, size, height, type)))
    /\ last' = Call("Terrain", id, FALSE, FullRebuild)
    /\ UNCHANGED <<build, ctors, oceanVars>>

\* Terrain::~Terrain
TerrainDestroy(id) ==
    /\ id \in DOMAIN terrains
    /\ instanceCount' = instanceCount - 1
    /\ shader' = IF instanceCount' = 0 THEN FALSE ELSE shader
    /\ permutation' = IF instanceCount' = 0 THEN << >> ELSE permutation
    /\ terrains' = Drop(terrains, id)
    /\ last' = Call("~Terrain", id, FALSE, {})
    /\ UNCHANGED <<build, ctors, oceanVars>>

\* a call of a method that returns [t, work] on Terrain id
TerrainCall(id, op, same, result) ==
    /\ terrains' = [terrains EXCEPT ![id] = result.t]
    /\ last' = Call(op, id, same, result.work)
    /\ UNCHANGED <<build, ctors, terrainStatics, oceanVars>>

TerrainSetType(id, newType) ==
    /\ id \in DOMAIN terrains
    /\ TerrainCall(id, "setType", terrains[id].type = newType,
                   setType(build.revision, permutation, terrains[id], newType))

TerrainSetHeightScale(id, scale) ==
    /\ id \in DOMAIN terrains
    /\ TerrainCall(id, "setHeightScale", terrains[id].maxHeight = scale,
                   setHeightScale(build.revision, permutation, terrains[id], scale))

TerrainSetNoiseFrequency(id, freq) ==
    /\ id \in DOMAIN terrains
    /\ TerrainCall(id, "setNoiseFrequency", terrains[id].noiseFrequency = freq,
                   setNoiseFrequency(build.revision, permutation, terrains[id], freq))

TerrainRegenerate(id) ==
    /\ id \in DOMAIN terrains
    /\ TerrainCall(id, "regenerate", FALSE,
                   regenerateCall(build.revision, permutation, terrains[id]))

\* Terrain::update taking dt for the height scale
TerrainUpdateScaling(id, dt) ==
    /\ id \in DOMAIN terrains
    /\ TerrainCall(id, "update", FALSE,
                   [t |-> [terrains[id] EXCEPT !.maxHeight = dt], work |-> {}])

\* Terrain::update: an empty body
TerrainUpdate(id, dt) ==
    /\ id \in DOMAIN terrains
    /\ TerrainCall(id, "update", FALSE, [t |-> terrains[id], work |-> {}])

\* Terrain::render: uses the shader and draws indexCount indices
TerrainRender(id) ==
    /\ id \in DOMAIN terrains
    /\ shader
    /\ TerrainCall(id, "render", FALSE, [t |-> terrains[id], work |-> {}])

\* the members of an Ocean after the member initializers
newOcean(size, resolution, waveHeight) ==
    [size |-> size, resolution |-> resolution, waveHeight |-> waveHeight,
     waveSpeed |-> Scale, waveFrequency |-> Scale, time |-> 0, waves |-> << >>,
     positions |-> << >>, normals |-> << >>, uvs |-> << >>, indices |-> << >>,
     vbo |-> << >>, nbo |-> << >>, tbo |-> << >>, ebo |-> << >>, indexCount |-> 0,
     waterColor |-> Vec3(100, 300, 500), foamColor |-> Vec3(900, 950, 1000),
     transparency |-> 700]

\* Ocean::Ocean patching the fresh grid with the waves of time 0 before the
\* uploads
constructOceanDisplaced(o0) ==
    LET o == updateMesh(generateMesh([o0 EXCEPT !.waves = initializeWaves]))
    IN  [o EXCEPT !.tbo = o.uvs, !.ebo = o.indices, !.indexCount = Len(o.indices)]

\* the body of Ocean::Ocean from initializeWaves on
constructOcean(o0) ==
    LET o == generateMesh([o0 EXCEPT !.waves = initializeWaves])
    IN  [o EXCEPT !.vbo = o.positions, !.nbo = o.normals, !.tbo = o.uvs,
                  !.ebo = o.indices, !.indexCount = Len(o.indices)]

\* Ocean::Ocean
OceanConstruct(id, size, resolution, waveHeight) ==
    /\ id \notin DOMAIN oceans
    /\ oceanInstanceCount' = oceanInstanceCount + 1
    /\ oceanShader' = TRUE
    /\ oceans' = Put(oceans, id, constructOcean(newOcean(size, resolution, waveHeight)))
    /\ last' = Call("Ocean", id, FALSE, {"generateMesh", "upload"})
    /\ UNCHANGED <<build, ctors, terrainStatics, terrains>>

\* Ocean::~Ocean
OceanDestroy(id) ==
    /\ id \in DOMAIN oceans
    /\ oceanInstanceCount' = oceanInstanceCount - 1
    /\ oceanShader' = IF oceanInstanceCount' = 0 THEN FALSE ELSE oceanShader
    /\ oceans' = Drop(oceans, id)
    /\ last' = Call("~Ocean", id, FALSE, {})
    /\ UNCHANGED <<build, ctors, terrainStatics, terrains>>

\* Ocean::update
OceanUpdate(id, dt) ==
    /\ id \in DOMAIN oceans
    /\ oceans[id].time + Mul(dt, oceans[id].waveFrequency) <= MaxTime
    /\ oceans' = [oceans EXCEPT ![id] = oceanUpdate(@, dt)]
    /\ last' = [Call("Ocean::update", id, FALSE, {"updateMesh", "upload"}) EXCEPT
                  !.q = [dt |-> dt]]
    /\ UNCHANGED <<build, ctors, terrainStatics, terrains, oceanShader, oceanInstanceCount>>

\* Ocean::render
OceanRender(id) ==
    /\ id \in DOMAIN oceans
    /\ oceanShader
    /\ last' = Call("Ocean::render", id, FALSE, {})
    /\ UNCHANGED <<build, ctors, terrainStatics, terrains, oceanVars>>

\* Terrain::getHeightAt on Terrain id
TerrainGetHeightAt(id, worldX, worldZ) ==
    /\ id \in DOMAIN terrains
    /\ \E garbage \in Garbage :
         last' = [Call("getHeightAt", id, FALSE, {}) EXCEPT
                    !.q = getHeightAt(build.revision, terrains[id], worldX, worldZ, garbage)]
    /\ UNCHANGED <<build, ctors, terrainStatics, terrains, oceanVars>>

Next ==
    \/ \E id \in TerrainIds, r \in Resolutions, s \in Sizes, h \in Heights, ty \in TerrainTypes :
         TerrainConstruct(id, r, s, h, ty)
    \/ \E id \in TerrainIds : TerrainDestroy(id)
    \/ \E id \in TerrainIds, ty \in TerrainTypes : TerrainSetType(id, ty)
    \/ \E id \in TerrainIds, h \in Heights : TerrainSetHeightScale(id, h)
    \/ \E id \in TerrainIds, f \in Freqs : TerrainSetNoiseFrequency(id, f)
    \/ \E id \in TerrainIds : TerrainRegenerate(id)
    \/ \E id \in TerrainIds, dt \in Dts : TerrainUpdate(id, dt)
    \/ \E id \in TerrainIds : TerrainRender(id)
    \/ \E id \in TerrainIds : TerrainGetHeightAt(id, 1250, 0)
    \/ \E id \in OceanIds, s \in Sizes, r \in Resolutions, wh \in WaveHeights :
         OceanConstruct(id, s, r, wh)
    \/ \E id \in OceanIds : OceanDestroy(id)
    \/ \E id \in OceanIds, dt \in Dts : OceanUpdate(id, dt)
    \/ \E id \in OceanIds : OceanRender(id)

Spec == Init /\ [][Next]_vars

\* ---------------------------------------------------- queries of a Terrain

\* the scene once its Terrain is constructed
InitQuery ==
    /\ build \in [revision : Revisions, argOrder : ArgOrders]
    /\ shader = TRUE
    /\ instanceCount = 1
    /\ \E k \in 1..NumShuffles : permutation = Tables[k]
    /\ \E r \in Resolutions, s \in Sizes, h \in Heights, ty \in TerrainTypes :
         terrains = Put(<< >>, 1,
                        constructMesh(build.revision, build.argOrder, permutation,
                                      newTerrain(r, s, h, ty)))
    /\ oceanShader = FALSE
    /\ oceanInstanceCount = 0
    /\ oceans = << >>
    /\ last = Call("Terrain", 1, FALSE, FullRebuild)
    /\ ctors = << >>

NextQuery ==
    \/ \E id \in TerrainIds, x \in QueryCoords, z \in QueryCoords :
         TerrainGetHeightAt(id, x, z)
    \/ \E id \in TerrainIds, h \in Heights : TerrainSetHeightScale(id, h)
    \/ \E id \in TerrainIds, ty \in TerrainTypes : TerrainSetType(id, ty)

SpecQuery == InitQuery /\ [][NextQuery]_vars

\* --------------------------------- Terrain constructors on concurrent threads

\* entries of p one step of the fill loop's model copies
FillChunk == 128

\* the threads, each constructing the Terrain of its id
ThreadIds == {1, 2}

\* the constructor arguments of the threads
ThreadArgs ==
    {[resolution |-> 1, size |-> 10 * Scale, height |-> 20 * Scale, type |-> "ISLAND"],
     [resolution |-> 2, size |-> 10 * Scale, height |-> 20 * Scale, type |-> "RIDGED"]}

\* instanceCount++ and the shader check
CtorEnter(id) ==
    /\ id \in DOMAIN ctors /\ ctors[id].pc = "enter"
    /\ instanceCount' = instanceCount + 1
    /\ shader' = TRUE
    /\ ctors' = [ctors EXCEPT ![id].pc = "check"]
    /\ UNCHANGED <<build, permutation, terrains, oceanVars, last>>

\* if (permutation.empty())
CtorCheckTable(id) ==
    /\ id \in DOMAIN ctors /\ ctors[id].pc = "check"
    /\ ctors' = [ctors EXCEPT ![id].pc = IF permutation = << >> THEN "resize" ELSE "build",
                              ![id].initializes = (permutation = << >>)]
    /\ UNCHANGED <<build, terrainStatics, terrains, oceanVars, last>>

\* permutation.resize(512): new entries are 0, entries already there stay
CtorResize(id) ==
    /\ id \in DOMAIN ctors /\ ctors[id].pc = "resize"
    /\ permutation' = Tabulate([i \in 1..PermSize |->
                                  IF i <= Len(permutation) THEN permutation[i] ELSE 0])
    /\ ctors' = [ctors EXCEPT ![id].pc = "shuffle"]
    /\ UNCHANGED <<build, shader, instanceCount, terrains, oceanVars, last>>

\* the local p filled with 0..255 and shuffled
CtorShuffle(id) ==
    /\ id \in DOMAIN ctors /\ ctors[id].pc = "shuffle"
    /\ \E k \in 1..NumShuffles :
         ctors' = [ctors EXCEPT ![id].pc = "fill", ![id].k = k, ![id].i = 0]
    /\ UNCHANGED <<build, terrainStatics, terrains, oceanVars, last>>

\* FillChunk iterations of: permutation[i] = p[i]; permutation[256 + i] = p[i]
CtorFill(id) ==
    /\ id \in DOMAIN ctors /\ ctors[id].pc = "fill"
    /\ LET from == ctors[id].i
           to   == Min(from + FillChunk, PermHalf)
           p    == shuffled(ctors[id].k)
       IN  /\ permutation' = Tabulate([j \in 1..PermSize |->
                                IF ((j - 1) % PermHalf) >= from /\ ((j - 1) % PermHalf) < to
                                THEN p[((j - 1) % PermHalf) + 1]
                                ELSE permutation[j]])
           /\ ctors' = [ctors EXCEPT ![id].i = to,
                                     ![id].pc = IF to = PermHalf THEN "build" ELSE "fill"]
    /\ UNCHANGED <<build, shader, instanceCount, terrains, oceanVars, last>>

\* initVoronoiCells, generateGrid, computeNormals and the uploads: the grid
\* samples permutation as it is now
CtorBuild(id) ==
    /\ id \in DOMAIN ctors /\ ctors[id].pc = "build"
    /\ LET a == ctors[id].args
       IN  terrains' = Put(terrains, id,
                           constructMesh(build.revision, build.argOrder, permutation,
                                         newTerrain(a.resolution, a.size, a.height, a.type)))
    /\ ctors' = [ctors EXCEPT ![id].pc = "done", ![id].sampledUnfilled = ~(\E j \in DOMAIN ctors : ctors[j].i = PermHalf)]
    /\ last' = Call("Terrain", id, FALSE, FullRebuild)
    /\ UNCHANGED <<build, terrainStatics, oceanVars>>

\* two threads about to construct the first Terrains of the process
InitConc ==
    /\ build \in [revision : Revisions, argOrder : ArgOrders]
    /\ shader = FALSE
    /\ instanceCount = 0
    /\ permutation = << >>
    /\ terrains = << >>
    /\ oceanShader = FALSE
    /\ oceanInstanceCount = 0
    /\ oceans = << >>
    /\ last = Call("start", 0, FALSE, {})
    /\ \E args \in [ThreadIds -> ThreadArgs] :
         ctors = [id \in ThreadIds |->
                    [pc |-> "enter", args |-> args[id], k |-> 0, i |-> 0,
                     initializes |-> FALSE, sampledUnfilled |-> FALSE]]

NextConc ==
    \/ \E id \in ThreadIds : CtorEnter(id)
    \/ \E id \in ThreadIds : CtorCheckTable(id)
    \/ \E id \in ThreadIds : CtorResize(id)
    \/ \E id \in ThreadIds : CtorShuffle(id)
    \/ \E id \in ThreadIds : CtorFill(id)
    \/ \E id \in ThreadIds : CtorBuild(id)

SpecConc == InitConc /\ [][NextConc]_vars

\* ------------------------------------------------- two Oceans and their
\* ------------------------------------------------- setters and queries

\* the Oceans of a scene that holds two of them
SeaIds == {1, 2}

\* values handed to the wave setters
WaveScales == {Scale, 2 * Scale}

\* coordinates handed to Ocean::getHeightAt; -5 and 0 are vertices of the
\* patch of size 10 at resolution 2
SeaQueryCoords == {-5 * Scale, 0}

\* Ocean::setWaveSpeed with the speed folded into every wave of the list
setWaveSpeedInWaves(o, speed) ==
    [o EXCEPT !.waves = Tabulate([i \in DOMAIN o.waves |->
                           [o.waves[i] EXCEPT !.speed = Mul(@, speed)]])]

\* Ocean::setWaveSpeed
setWaveSpeed(o, speed) == [o EXCEPT !.waveSpeed = speed]

\* Ocean::setWaveHeight patching and uploading the mesh at once
setWaveHeightPatching(o, height) == updateMesh([o EXCEPT !.waveHeight = height])

\* Ocean::setWaveHeight
setWaveHeight(o, height) == [o EXCEPT !.waveHeight = height]

\* Ocean::setWaveFrequency
setWaveFrequency(o, freq) == [o EXCEPT !.waveFrequency = freq]

\* a setter call on Ocean id that leaves it as result
OceanSet(id, op, result) ==
    /\ id \in DOMAIN oceans
    /\ oceans' = [oceans EXCEPT ![id] = result]
    /\ last' = Call(op, id, result = oceans[id], {})
    /\ UNCHANGED <<build, ctors, terrainStatics, terrains, oceanShader, oceanInstanceCount>>

\* Ocean::getHeightAt on Ocean id with the time the caller passes
OceanGetHeightAt(id, worldX, worldZ, t) ==
    /\ id \in DOMAIN oceans
    /\ last' = [Call("Ocean::getHeightAt", id, FALSE, {}) EXCEPT
                  !.q = [worldX |-> worldX, worldZ |-> worldZ, t |-> t,
                         ret |-> oceanGetHeightAt(oceans[id], worldX, worldZ, t)]]
    /\ UNCHANGED <<build, ctors, terrainStatics, terrains, oceanVars>>

\* a scene without a Terrain; the builds differ only in Terrain code, so the
\* scene fixes one
InitOcean ==
    /\ build = [revision |-> "simple", argOrder |-> "ltr"]
    /\ shader = FALSE
    /\ instanceCount = 0
    /\ permutation = << >>
    /\ terrains = << >>
    /\ oceanShader = FALSE
    /\ oceanInstanceCount = 0
    /\ oceans = << >>
    /\ last = Call("start", 0, FALSE, {})
    /\ ctors = << >>

NextOcean ==
    \/ \E id \in OceanIds, s \in Sizes, r \in Resolutions, wh \in WaveHeights :
         OceanConstruct(id, s, r, wh)
    \/ \E id \in OceanIds : OceanDestroy(id)
    \/ \E id \in OceanIds, dt \in Dts : OceanUpdate(id, dt)
    \/ \E id \in OceanIds : OceanRender(id)
    \/ \E id \in OceanIds, v \in WaveScales : OceanSet(id, "setWaveSpeed", setWaveSpeed(oceans[id], v))
    \/ \E id \in OceanIds, v \in WaveScales : OceanSet(id, "setWaveHeight", setWaveHeight(oceans[id], v))
    \/ \E id \in OceanIds, v \in WaveScales : OceanSet(id, "setWaveFrequency", setWaveFrequency(oceans[id], v))
    \/ \E id \in OceanIds, x \in SeaQueryCoords, z \in SeaQueryCoords, t \in {0} \cup Dts :
         OceanGetHeightAt(id, x, z, t)

\* one Ocean under its whole public interface
SpecOcean == InitOcean /\ [][NextOcean]_vars

NextSeas ==
    \/ \E id \in SeaIds, s \in Sizes, wh \in WaveHeights :
         OceanConstruct(id, s, MaxResolution, wh)
    \/ \E id \in SeaIds : OceanUpdate(id, MaxTime)
    \/ \E id \in SeaIds, v \in WaveScales : OceanSet(id, "setWaveSpeed", setWaveSpeed(oceans[id], v))
    \/ \E id \in SeaIds, v \in WaveScales : OceanSet(id, "setWaveHeight", setWaveHeight(oceans[id], v))
    \/ \E id \in SeaIds, v \in WaveScales : OceanSet(id, "setWaveFrequency", setWaveFrequency(oceans[id], v))

\* two Oceans constructed in either order, each updated and set on its own
SpecSeas == InitOcean /\ [][NextSeas]_vars

\* ------------------------------------- the mesh passes, statement by statement

MaxPassResolution == 4

\* arguments of the Terrain under construction; the last one is a patch so
\* small that its faces have no measurable area
PassArgs ==
    [resolution : {1, MaxPassResolution}, size : Sizes, height : Heights, type : TerrainTypes]
    \cup {[resolution |-> 1, size |-> Scale \div 200, height |-> 0, type |-> "ISLAND"]}

\* the statements with the Terrain upload ahead of computeNormals
passStepUploadEarly(op, work) ==
    CASE op = "Ocean" ->
           IF "generateMesh" \notin work THEN "generateMesh"
           ELSE IF "upload" \notin work THEN "upload" ELSE "return"
      [] op = "Ocean::update" ->
           IF "updateMesh" \notin work THEN "updateMesh"
           ELSE IF "upload" \notin work THEN "upload" ELSE "return"
      [] OTHER ->
           IF "generateGrid" \notin work THEN "generateGrid"
           ELSE IF "updateBuffers" \notin work THEN "updateBuffers"
           ELSE IF "computeNormals" \notin work THEN "computeNormals" ELSE "return"

\* the statement a call runs next once it has run the statements in work
passStep(op, work) ==
    CASE op = "Ocean" ->
           IF "generateMesh" \notin work THEN "generateMesh"
           ELSE IF "upload" \notin work THEN "upload" ELSE "return"
      [] op = "Ocean::update" ->
           IF "updateMesh" \notin work THEN "updateMesh"
           ELSE IF "upload" \notin work THEN "upload" ELSE "return"
      [] OTHER ->
           IF "generateGrid" \notin work THEN "generateGrid"
           ELSE IF "computeNormals" \notin work THEN "computeNormals"
           ELSE IF "updateBuffers" \notin work THEN "updateBuffers" ELSE "return"

\* Terrain::Terrain has run up to initVoronoiCells
InitPass ==
    /\ build \in [revision : Revisions, argOrder : {"ltr"}]
    /\ shader = TRUE
    /\ instanceCount = 1
    /\ permutation = Tables[1]
    /\ \E a \in PassArgs :
         terrains = Put(<< >>, 1,
                        [newTerrain(a.resolution, a.size, a.height, a.type) EXCEPT
                           !.voronoiCells = initVoronoiCells(build.argOrder, a.size)])
    /\ oceanShader = FALSE
    /\ oceanInstanceCount = 0
    /\ oceans = << >>
    /\ last = Call("Terrain", 1, FALSE, {})
    /\ ctors = << >>

\* a call on Terrain id that stores t and goes on to regenerate
TerrainPassBegin(id, op, t) ==
    /\ id \in DOMAIN terrains
    /\ passStep(last.op, last.work) = "return"
    /\ terrains' = [terrains EXCEPT ![id] = t]
    /\ last' = Call(op, id, t = terrains[id], {})
    /\ UNCHANGED <<build, ctors, terrainStatics, oceanVars>>

\* the next statement of the pass in progress on Terrain id
TerrainPassStep(id) ==
    /\ id \in DOMAIN terrains
    /\ last.id = id
    /\ last.op \in {"Terrain", "regenerate", "setHeightScale"}
    /\ passStep(last.op, last.work) # "return"
    /\ terrains' = [terrains EXCEPT ![id] =
         CASE passStep(last.op, last.work) = "generateGrid" ->
                generateGrid(build.revision, permutation, @)
           [] passStep(last.op, last.work) = "computeNormals" -> computeNormals(@)
           [] passStep(last.op, last.work) = "updateBuffers" -> updateBuffers(@)]
    /\ last' = [last EXCEPT !.work = @ \cup {passStep(last.op, last.work)}]
    /\ UNCHANGED <<build, ctors, terrainStatics, oceanVars>>

\* Ocean::Ocean up to initializeWaves
OceanCtorBegin(id, size, resolution, waveHeight) ==
    /\ id \notin DOMAIN oceans
    /\ passStep(last.op, last.work) = "return"
    /\ oceanInstanceCount' = oceanInstanceCount + 1
    /\ oceanShader' = TRUE
    /\ oceans' = Put(oceans, id, [newOcean(size, resolution, waveHeight) EXCEPT
                                    !.waves = initializeWaves])
    /\ last' = Call("Ocean", id, FALSE, {})
    /\ UNCHANGED <<build, ctors, terrainStatics, terrains>>

\* Ocean::update up to the call of updateMesh
OceanUpdateBegin(id, dt) ==
    /\ id \in DOMAIN oceans
    /\ passStep(last.op, last.work) = "return"
    /\ oceans[id].time + Mul(dt, oceans[id].waveFrequency) <= MaxTime
    /\ oceans' = [oceans EXCEPT ![id].time = @ + Mul(dt, oceans[id].waveFrequency)]
    /\ last' = [Call("Ocean::update", id, FALSE, {}) EXCEPT !.q = [dt |-> dt]]
    /\ UNCHANGED <<build, ctors, terrainStatics, terrains, oceanShader, oceanInstanceCount>>

\* the next statement of the pass in progress on Ocean id; the constructor's
\* upload also fills the uv and index buffers and sets indexCount
OceanPassStep(id) ==
    /\ id \in DOMAIN oceans
    /\ last.id = id
    /\ last.op \in {"Ocean", "Ocean::update"}
    /\ passStep(last.op, last.work) # "return"
    /\ oceans' = [oceans EXCEPT ![id] =
         CASE passStep(last.op, last.work) = "generateMesh" -> generateMesh(@)
           [] passStep(last.op, last.work) = "updateMesh" -> patchVertices(@)
           [] passStep(last.op, last.work) = "upload" ->
                IF last.op = "Ocean"
                THEN [uploadPatch(@) EXCEPT !.tbo = oceans[id].uvs,
                                            !.ebo = oceans[id].indices,
                                            !.indexCount = Len(oceans[id].indices)]
                ELSE uploadPatch(@)]
    /\ last' = [last EXCEPT !.work = @ \cup {passStep(last.op, last.work)}]
    /\ UNCHANGED <<build, ctors, terrainStatics, terrains, oceanShader, oceanInstanceCount>>

NextPass ==
    \/ \E id \in TerrainIds : TerrainPassBegin(id, "regenerate", terrains[id])
    \/ \E id \in TerrainIds, h \in Heights :
         TerrainPassBegin(id, "setHeightScale", [terrains[id] EXCEPT !.maxHeight = h])
    \/ \E id \in TerrainIds : TerrainPassStep(id)
    \/ \E id \in OceanIds, s \in Sizes, wh \in WaveHeights :
         OceanCtorBegin(id, s, MaxResolution, wh)
    \/ \E id \in OceanIds : OceanUpdateBegin(id, MaxTime)
    \/ \E id \in OceanIds : OceanPassStep(id)

SpecPass == InitPass /\ [][NextPass]_vars

\* ----------------------------------------------------------------- claims

\* the mesh of an entity of resolution R has (R+1)^2 positions, normals and
\* uvs, 6*R^2 indices, and every index below (R+1)^2
MeshShape(e) ==
    /\ Len(e.positions) = NumVertices(e.resolution)
    /\ Len(e.normals) = NumVertices(e.resolution)
    /\ Len(e.uvs) = NumVertices(e.resolution)
    /\ Len(e.indices) = 6 * e.resolution * e.resolution
    /\ \A k \in DOMAIN e.indices :
         e.indices[k] >= 0 /\ e.indices[k] < NumVertices(e.resolution)

\* C1: after construction and after every setType, setHeightScale,
\* setNoiseFrequency, regenerate and update, every Terrain and every Ocean has
\* len(positions) = len(normals) = len(uvs) = (R+1)^2, len(indices) = 6*R^2,
\* and every index < (R+1)^2
C1_MeshInvariant ==
    /\ \A id \in DOMAIN terrains : MeshShape(terrains[id])
    /\ \A id \in DOMAIN oceans : MeshShape(oceans[id])

\* a Terrain of resolution > 1 that a setter has just rebuilt, beside an Ocean
\* that update has displaced
C1_Witness ==
    /\ last.op = "setNoiseFrequency"
    /\ \E id \in DOMAIN terrains :
         terrains[id].resolution > 1 /\ terrains[id].noiseFrequency # Scale
    /\ \E id \in DOMAIN oceans : oceans[id].resolution > 1 /\ oceans[id].time > 0

\* the last call was getHeightAt on a live Terrain
Queried == last.op = "getHeightAt" /\ last.id \in DOMAIN terrains

\* C2: a getHeightAt query that passes the range guard reads four indices
\* idx00, idx10, idx01, idx11, each in [0, (resolution+1)^2)
C2_ReadsInBounds ==
    (Queried /\ last.q.passed) =>
        /\ Len(last.q.reads) = 4
        /\ \A k \in DOMAIN last.q.reads :
             /\ last.q.reads[k] >= 0
             /\ last.q.reads[k] < NumVertices(terrains[last.id].resolution)

\* a query in the last row and last column of cells passed the guard
C2_Witness ==
    /\ Queried
    /\ last.q.passed
    /\ Floor(gridCoord(terrains[last.id], last.q.worldX)) = terrains[last.id].resolution - 1
    /\ Floor(gridCoord(terrains[last.id], last.q.worldZ)) = terrains[last.id].resolution - 1

\* fx or fz of the last query is < 0 or >= resolution
QueryOutside ==
    LET t  == terrains[last.id]
        fx == gridCoord(t, last.q.worldX)
        fz == gridCoord(t, last.q.worldZ)
    IN  fx < 0 \/ fx >= t.resolution * Scale \/ fz < 0 \/ fz >= t.resolution * Scale

\* C3: a getHeightAt query with fx or fz < 0 or >= resolution returns exactly
\* 0 and reads no element of positions
C3_OutsideReturnsZero ==
    (Queried /\ QueryOutside) => (last.q.ret = 0 /\ last.q.reads = << >>)

\* a query with fx = resolution exactly, over a Terrain that is not flat
C3_Witness ==
    /\ Queried
    /\ gridCoord(terrains[last.id], last.q.worldX) = terrains[last.id].resolution * Scale
    /\ \E i \in DOMAIN terrains[last.id].positions : terrains[last.id].positions[i].y # 0
    /\ last.q.ret = 0

\* the bilinear interpolation of the vertices (x0,z0), (x0+1,z0), (x0,z0+1),
\* (x0+1,z0+1) around the last query
EnclosingCellHeight ==
    LET t  == terrains[last.id]
        fx == gridCoord(t, last.q.worldX)
        fz == gridCoord(t, last.q.worldZ)
        x0 == Floor(fx)
        z0 == Floor(fz)
        y(x, z) == t.positions[z * (t.resolution + 1) + x + 1].y
    IN  bilinear(y(x0, z0), y(x0 + 1, z0), y(x0, z0 + 1), y(x0 + 1, z0 + 1),
                 fx - x0 * Scale, fz - z0 * Scale)

\* C4: a getHeightAt query inside the grid returns the bilinear interpolation
\* of the four vertices enclosing it, in every cell, the last row and the last
\* column included
C4_BilinearOfEnclosingCell ==
    (Queried /\ ~QueryOutside) => last.q.ret = EnclosingCellHeight

\* C5: setType with the type already active changes no Terrain and no shared
\* state, and runs no grid rebuild, normal recompute or buffer upload
C5_SetSameTypeNoOp ==
    [][(last'.op = "setType" /\ last'.same) =>
          /\ terrains' = terrains
          /\ permutation' = permutation
          /\ shader' = shader
          /\ instanceCount' = instanceCount
          /\ last'.work = {}]_vars

\* setType was called with the type the Terrain already had
C5_Witness ==
    /\ last.op = "setType"
    /\ last.same
    /\ last.id \in DOMAIN terrains
    /\ Len(terrains[last.id].positions) > 0

\* C6: setHeightScale with the scale already in effect, and setNoiseFrequency
\* with the frequency already in effect, run no grid rebuild, no normal
\* recompute and no buffer upload
C6_SameValueNoRebuild ==
    (last.op \in {"setHeightScale", "setNoiseFrequency"} /\ last.same) => last.work = {}

\* C7: every live Terrain holds the full rebuild for its current parameters:
\* positions and uvs are the grid of finalHeight for the current type,
\* maxHeight and noiseFrequency, normals are those of these positions, and the
\* buffers and indexCount equal the arrays
C7_MeshIsCurrentRebuild ==
    \A id \in DOMAIN terrains :
        /\ terrains[id] = Rebuilt(build.revision, permutation, terrains[id])
        /\ terrains[id].vbo = terrains[id].positions
        /\ terrains[id].nbo = terrains[id].normals
        /\ terrains[id].tbo = terrains[id].uvs
        /\ terrains[id].ebo = terrains[id].indices
        /\ terrains[id].indexCount = Len(terrains[id].indices)

\* setHeightScale has just changed the scale of a Terrain built with another
C7_Witness ==
    /\ last.op = "setHeightScale"
    /\ ~last.same
    /\ last.work = FullRebuild
    /\ last.id \in DOMAIN terrains
    /\ terrains[last.id].maxHeight # 0

\* C8: once the permutation table is built, its 512 entries never change and
\* it is never rebuilt, over any constructions and destructions of Terrains
C8_TableBuiltOnce ==
    [][Len(permutation) = PermSize => permutation' = permutation]_vars

\* C9: when two constructors race as first users, at most one of them
\* initializes the table and none builds its grid before a fill loop has
\* written all 512 entries
C9_OneInitializerNoEarlySample ==
    /\ Cardinality({id \in DOMAIN ctors : ctors[id].initializes}) <= 1
    /\ \A id \in DOMAIN ctors : ~ctors[id].sampledUnfilled

\* the last query was in range over a Terrain whose maxHeight is 0
FlatInteriorQuery ==
    Queried /\ ~QueryOutside /\ terrains[last.id].maxHeight = 0

\* C10 as stated: over a Terrain with maxHeight = 0, of any type, every
\* interior getHeightAt query returns 0
C10_FlatReturnsZero == FlatInteriorQuery => last.q.ret = 0

\* C10: in the revision where finalHeight is base * mask * maxHeight, over a
\* Terrain with maxHeight = 0, of any type, every interior getHeightAt query
\* returns 0
C10_FlatReturnsZeroSimple ==
    (FlatInteriorQuery /\ build.revision = "simple") => last.q.ret = 0

\* an interior query strictly inside a cell of a flat Terrain of the simple
\* revision
C10_Witness ==
    /\ FlatInteriorQuery
    /\ build.revision = "simple"
    /\ Frac(gridCoord(terrains[last.id], last.q.worldX)) # 0
    /\ last.q.ret = 0

\* ------------------------------------------------- the scene of island_demo

\* number of entries of OceanScene::keys; GLFW_KEY_MENU, the highest key code,
\* has this value
GLFW_KEY_LAST == 348

\* the scene at the end of OceanScene::OceanScene: its Terrain of type ISLAND
\* and its Ocean of wave height 0.5 with the appearance the constructor sets,
\* both scaled down to the grids of the model
InitScene ==
    /\ build \in [revision : Revisions, argOrder : {"ltr"}]
    /\ shader = TRUE
    /\ instanceCount = 1
    /\ permutation = Tables[1]
    /\ \E s \in Sizes, h \in Heights \ {0} :
         terrains = Put(<< >>, 1,
                        constructMesh(build.revision, build.argOrder, permutation,
                                      newTerrain(MaxResolution, s, h, "ISLAND")))
    /\ oceanShader = TRUE
    /\ oceanInstanceCount = 1
    /\ \E s \in Sizes :
         oceans = Put(<< >>, 1,
                      [constructOcean(newOcean(s, 2, Half)) EXCEPT
                         !.waterColor = Vec3(50, 200, 400),
                         !.foamColor = Vec3(900, 950, 1000),
                         !.transparency = 850,
                         !.waveSpeed = Scale])
    /\ last = Call("OceanScene", 1, FALSE, {})
    /\ ctors = << >>

\* OceanScene::handleKeyboard(key, action) with GLFW's codes: action 1 is
\* GLFW_PRESS and 0 is GLFW_RELEASE; keys 49..53 are GLFW_KEY_1..GLFW_KEY_5,
\* 90 is GLFW_KEY_Z and 88 is GLFW_KEY_X. keys[key] is written unchecked: an
\* index of -1 is the last byte of the member before keys, view, and an index
\* of GLFW_KEY_LAST is the byte after the array, outside the object
HandleKeyboard(key, action) ==
    LET press  == action = 1
        wrote  == action \in {0, 1}
        result == IF press /\ key \in 49..53
                  THEN setType(build.revision, permutation, terrains[1],
                               CASE key = 49 -> "ISLAND"
                                 [] key = 50 -> "RIDGED"
                                 [] key = 51 -> "VORONOI"
                                 [] key = 52 -> "CANYON"
                                 [] key = 53 -> "PLATEAUS")
                  ELSE [t |-> terrains[1], work |-> {}]
        sea    == IF press /\ key = 90
                  THEN setWaveHeight(oceans[1], oceanGetHeightAt(oceans[1], 0, 0, 0) + Half)
                  ELSE IF press /\ key = 88
                  THEN setWaveSpeed(oceans[1], Scale + Half)
                  ELSE oceans[1]
    IN  /\ 1 \in DOMAIN terrains
        /\ 1 \in DOMAIN oceans
        /\ terrains' = [terrains EXCEPT ![1] = result.t]
        /\ oceans' = [oceans EXCEPT ![1] = sea]
        /\ \E hit \in IF ~wrote THEN {"nothing"}
                      ELSE IF key \in 0..(GLFW_KEY_LAST - 1) THEN {"keys"}
                      ELSE IF key = 0 - 1 THEN {"view"}
                      ELSE {"padding", "frame of main"} :
             last' = [Call("handleKeyboard", 1, FALSE, result.work) EXCEPT
                        !.q = [key |-> key, action |-> action, wrote |-> wrote,
                               index |-> key, hit |-> hit]]
        /\ UNCHANGED <<build, ctors, terrainStatics, oceanShader, oceanInstanceCount>>

\* the frame loop of main and the key callback, with the calls on the scene's
\* Terrain and Ocean that the frame and the rest of the interface make
NextScene ==
    \/ \E key \in {0 - 1, 49, 50, 51, 52, 53, 65, 88, 90, GLFW_KEY_LAST}, action \in {0, 1, 2} :
         HandleKeyboard(key, action)
    \/ \E dt \in Dts : OceanUpdate(1, dt)
    \/ TerrainUpdate(1, 250)
    \/ TerrainRender(1)
    \/ OceanRender(1)
    \/ \E x \in {0, 1250} : TerrainGetHeightAt(1, x, 0)
    \/ \E x \in SeaQueryCoords, t \in {0, 250} : OceanGetHeightAt(1, x, 0, t)
    \/ \E c \in {Vec3(50, 200, 400), Vec3(100, 300, 500)} :
         OceanSet(1, "setWaterColor", [oceans[1] EXCEPT !.waterColor = c])
    \/ \E c \in {Vec3(900, 950, 1000), Vec3(Scale, Scale, Scale)} :
         OceanSet(1, "setFoamColor", [oceans[1] EXCEPT !.foamColor = c])
    \/ \E alpha \in {700, 850} :
         OceanSet(1, "setTransparency", [oceans[1] EXCEPT !.transparency = alpha])

SpecScene == InitScene /\ [][NextScene]_vars

\* ------------------------------------------- instances and implicit copies

\* live instances beyond instanceCount that the copy actions allow
MaxUncounted == 2

\* the implicitly-declared Terrain(const Terrain&): Terrain.h declares no copy
\* constructor, so a copy takes every member of the source and leaves
\* instanceCount, shader and permutation alone; ~Terrain runs for it later
TerrainCopy(id, from) ==
    /\ from \in DOMAIN terrains
    /\ id \notin DOMAIN terrains
    /\ Cardinality(DOMAIN terrains) - instanceCount < MaxUncounted
    /\ terrains' = Put(terrains, id, terrains[from])
    /\ last' = Call("Terrain(const Terrain&)", id, FALSE, {})
    /\ UNCHANGED <<build, ctors, terrainStatics, oceanVars>>

\* the implicitly-declared Ocean(const Ocean&)
OceanCopy(id, from) ==
    /\ from \in DOMAIN oceans
    /\ id \notin DOMAIN oceans
    /\ Cardinality(DOMAIN oceans) - oceanInstanceCount < MaxUncounted
    /\ oceans' = Put(oceans, id, oceans[from])
    /\ last' = Call("Ocean(const Ocean&)", id, FALSE, {})
    /\ UNCHANGED <<build, ctors, terrainStatics, terrains, oceanShader, oceanInstanceCount>>

NextInstances ==
    \/ \E id \in {1, 2}, s \in Sizes, ty \in {"ISLAND", "CANYON"} :
         TerrainConstruct(id, 1, s, 0, ty)
    \/ \E id \in {1, 2}, from \in {1, 2} : TerrainCopy(id, from)
    \/ \E id \in {1, 2} : TerrainDestroy(id)
    \/ \E id \in {1, 2} : TerrainRender(id)
    \/ \E id \in {1, 2}, s \in Sizes, wh \in WaveHeights : OceanConstruct(id, s, 1, wh)
    \/ \E id \in {1, 2}, from \in {1, 2} : OceanCopy(id, from)
    \/ \E id \in {1, 2} : OceanDestroy(id)
    \/ \E id \in {1, 2} : OceanRender(id)

\* Terrains and Oceans constructed, copied and destroyed in any order
SpecInstances == Init /\ [][NextInstances]_vars

\* ------------------------------------------- the functions, called directly

\* the lookups of perlin without the & 255 on the cell coordinates; a read
\* outside the table yields 0
perlinLookupsUnmasked(perm, x, y) ==
    LET at(i) == IF i \in 0..(Len(perm) - 1) THEN PermAt(perm, i) ELSE 0
        X == Floor(x)
        Y == Floor(y)
        A == at(X) + Y
        B == at(X + 1) + Y
    IN  [X |-> X, Y |-> Y, A |-> A, AA |-> at(A), AB |-> at(A + 1),
         B |-> B, BA |-> at(B), BB |-> at(B + 1)]

\* the cell coordinates and the hashes perlin(x, y) computes; permutation is
\* read at X, X + 1, A, A + 1, B, B + 1, AA, AB, BA and BB
perlinLookups(perm, x, y) ==
    LET X == Floor(x) % PermHalf
        Y == Floor(y) % PermHalf
        A == PermAt(perm, X) + Y
        B == PermAt(perm, X + 1) + Y
    IN  [X |-> X, Y |-> Y, A |-> A, AA |-> PermAt(perm, A), AB |-> PermAt(perm, A + 1),
         B |-> B, BA |-> PermAt(perm, B), BB |-> PermAt(perm, B + 1)]

\* a call of a function of Terrain or Ocean that changes no member: q holds
\* its arguments and what it returned. The functions keep nothing between
\* calls, so a behaviour makes one call
Sample(op, q) ==
    /\ last.op = "start"
    /\ last' = [Call(op, 0, FALSE, {}) EXCEPT !.q = q]
    /\ UNCHANGED <<build, ctors, terrainStatics, terrains, oceanVars>>

NextPure ==
    \/ \E k \in 1..NumShuffles, c \in -3..258, y \in {-500, 0, 255999, 1000 * Scale} :
         Sample("perlin",
                [perm |-> k, x |-> c * Scale + 250, y |-> y,
                 lookups |-> perlinLookups(Tables[k], c * Scale + 250, y),
                 ret |-> perlin(Tables[k], c * Scale + 250, y)])
    \/ \E ty \in TerrainTypes, h \in Heights, f \in Freqs, s \in Sizes,
          x \in {0, 2500, 10 * Scale, 20 * Scale}, y \in {0, -10 * Scale} :
         Sample("finalHeight",
                [t |-> [newTerrain(1, s, h, ty) EXCEPT !.noiseFrequency = f,
                                                       !.voronoiCells = Cells["ltr", s]],
                 x |-> x, y |-> y,
                 islandShape |->
                    islandMaskLayered(Tables[1],
                        [newTerrain(1, s, h, ty) EXCEPT !.noiseFrequency = f,
                                                        !.voronoiCells = Cells["ltr", s]], x, y),
                 ret |->
                    finalHeight("layered", Tables[1],
                        [newTerrain(1, s, h, ty) EXCEPT !.noiseFrequency = f,
                                                        !.voronoiCells = Cells["ltr", s]], x, y)])
    \/ \E ty \in TerrainTypes, h \in Heights, s \in Sizes,
          islandShape \in {0, 49, 50, 51, 249, 250, 399, 400, 850, 851, Scale},
          baseNoise \in {0, Half, Scale}, coastType \in {0, 550, 551, Scale} :
         Sample("layeredProfile",
                [t |-> [newTerrain(1, s, h, ty) EXCEPT !.voronoiCells = Cells["ltr", s]],
                 x |-> 1250, y |-> 2500,
                 islandShape |-> islandShape, baseNoise |-> baseNoise, coastType |-> coastType,
                 ret |->
                    layeredProfile(Tables[1],
                        [newTerrain(1, s, h, ty) EXCEPT !.voronoiCells = Cells["ltr", s]],
                        1250, 2500, islandShape, baseNoise, coastType)])
    \/ \E i \in DOMAIN initializeWaves, wh \in {-Scale, 0, Half, 2 * Scale}, ws \in WaveScales,
          x \in SeaQueryCoords, j \in 0..7 :
         Sample("gerstnerWaveNormal",
                [o |-> [newOcean(10 * Scale, 1, wh) EXCEPT !.waves = << initializeWaves[i] >>,
                                                           !.waveSpeed = ws],
                 x |-> x, z |-> 1250,
                 t |-> (j * Div(initializeWaves[i].wavelength,
                                Mul(initializeWaves[i].speed, ws))) \div 8,
                 n |->
                    gerstnerWaveNormal(
                        [newOcean(10 * Scale, 1, wh) EXCEPT !.waves = << initializeWaves[i] >>,
                                                            !.waveSpeed = ws],
                        x, 1250,
                        (j * Div(initializeWaves[i].wavelength,
                                 Mul(initializeWaves[i].speed, ws))) \div 8)])

\* perlin, finalHeight of the layered revision and gerstnerWaveNormal on
\* arguments of every kind, with no Terrain or Ocean constructed
SpecPure == InitOcean /\ [][NextPure]_vars

\* ---- claims C11 onwards

\* normal n is the safe normalisation of the accumulated sum of length len:
\* sum / len and of unit length when len > 0.0001, else exactly (0, 1, 0);
\* unit length is met up to one percent plus the quantum 1 / Scale that each
\* component of sum carries, which weighs 2 / len after the division
NormalFromSum(n, sum, len) ==
    IF len > Scale \div 10000
    THEN /\ n = VDiv(sum, len)
         /\ Abs(Length(n) - Scale) <= Scale \div 100 + (2 * Scale) \div len
    ELSE n = Vec3(0, Scale, 0)

NormalsFromSums(normals, sums) ==
    \A i \in DOMAIN normals : NormalFromSum(normals[i], sums[i], Length(sums[i]))

\* C11: once computeNormals has run, every vertex normal of a Terrain is the
\* sum of the face normals of its triangles divided by the length of that sum
\* when the length exceeds 0.0001, and exactly (0, 1, 0) otherwise (a zero sum
\* included); so every normal has unit length and none comes from a division
\* by a zero or near-zero length
C11_NormalsSafelyNormalized ==
    \A id \in DOMAIN terrains :
        Len(terrains[id].normals) # 0 =>
            /\ Len(terrains[id].normals) = Len(terrains[id].positions)
            /\ NormalsFromSums(terrains[id].normals,
                               accumulateFaces(terrains[id].positions, terrains[id].indices, 1,
                                               [i \in DOMAIN terrains[id].positions |-> Vec3(0, 0, 0)]))

\* computeNormals has run on a patch whose face normals sum to zero at some
\* vertex, and that vertex holds (0, 1, 0)
C11_Witness ==
    /\ last.op = "Terrain"
    /\ "computeNormals" \in last.work
    /\ \E i \in DOMAIN terrains[1].normals :
         /\ Length(accumulateFaces(terrains[1].positions, terrains[1].indices, 1,
                                   [j \in DOMAIN terrains[1].positions |-> Vec3(0, 0, 0)])[i]) = 0
         /\ terrains[1].normals[i] = Vec3(0, Scale, 0)

\* the face normal of triangle k of t: the cross product computeNormals takes
FaceNormal(t, k) ==
    Cross(VSub(t.positions[t.indices[3 * k - 1] + 1], t.positions[t.indices[3 * k - 2] + 1]),
          VSub(t.positions[t.indices[3 * k] + 1], t.positions[t.indices[3 * k - 2] + 1]))

\* every height of t is 0 and computeNormals has run on it
FlatWithNormals(t) ==
    /\ Len(t.normals) # 0
    /\ \A i \in DOMAIN t.positions : t.positions[i].y = 0

\* C12: on a grid of any resolution R >= 1 whose heights are all 0,
\* generateGrid followed by computeNormals leaves (R+1)^2 vertices, 6*R^2
\* indices and the normal (0, 1, 0) at every vertex, and every face normal
\* points along +y (strictly, once the cell area is a whole quantum)
C12_FlatGridNormalsUp ==
    \A id \in DOMAIN terrains :
        FlatWithNormals(terrains[id]) =>
            /\ Len(terrains[id].positions) = (terrains[id].resolution + 1) * (terrains[id].resolution + 1)
            /\ Len(terrains[id].indices) = 6 * terrains[id].resolution * terrains[id].resolution
            /\ Len(terrains[id].normals) = Len(terrains[id].positions)
            /\ \A i \in DOMAIN terrains[id].normals : terrains[id].normals[i] = Vec3(0, Scale, 0)
            /\ \A k \in 1..(2 * terrains[id].resolution * terrains[id].resolution) :
                 /\ FaceNormal(terrains[id], k).x = 0
                 /\ FaceNormal(terrains[id], k).z = 0
                 /\ FaceNormal(terrains[id], k).y >= 0
                 /\ terrains[id].size >= Scale => FaceNormal(terrains[id], k).y > 0

\* the flat grid of resolution 4 and size 10: 25 vertices, 96 indices
C12_Witness ==
    /\ last.op = "Terrain"
    /\ last.work = {"generateGrid", "computeNormals"}
    /\ FlatWithNormals(terrains[1])
    /\ terrains[1].resolution = 4
    /\ terrains[1].size = 10 * Scale
    /\ Len(terrains[1].positions) = 25
    /\ Len(terrains[1].indices) = 96
    /\ terrains[1].normals[13] = Vec3(0, Scale, 0)

\* cell (x, z) of grid e, the (z * R + x)-th cell pushed, holds i0, i2, i1,
\* i1, i2, i3 with i0 = z * (R + 1) + x, i1 = i0 + 1, i2 = i0 + (R + 1),
\* i3 = i2 + 1, and vertex i0 lies at ((x / R - 0.5) * size, (z / R - 0.5) * size)
\* up to the quantum of x / R scaled by size, and one quantum of the product
CellAsPushed(e, x, z, i0) ==
    /\ SubSeq(e.indices, 6 * (z * e.resolution + x) + 1, 6 * (z * e.resolution + x) + 6)
         = <<i0, i0 + e.resolution + 1, i0 + 1,
             i0 + 1, i0 + e.resolution + 1, i0 + e.resolution + 2>>
    /\ Abs(e.positions[i0 + 1].x - ((x * e.size) \div e.resolution - e.size \div 2)) <= e.size \div Scale + 1
    /\ Abs(e.positions[i0 + 1].z - ((z * e.size) \div e.resolution - e.size \div 2)) <= e.size \div Scale + 1

GridAsPushed(e) ==
    Len(e.indices) # 0 =>
        /\ Len(e.indices) = 6 * e.resolution * e.resolution
        /\ \A x \in 0..(e.resolution - 1), z \in 0..(e.resolution - 1) :
             CellAsPushed(e, x, z, z * (e.resolution + 1) + x)

\* C13: the index list generateGrid and generateMesh build holds, for every
\* cell (x, z) in row-major order (z outer, x inner), exactly the six indices
\* i0, i2, i1, i1, i2, i3, and vertex i0 lies at the cell's world position
C13_IndexListRowMajor ==
    /\ \A id \in DOMAIN terrains : GridAsPushed(terrains[id])
    /\ \A id \in DOMAIN oceans : GridAsPushed(oceans[id])

\* a Terrain of resolution 4 has its grid and an Ocean of resolution 2 its mesh
C13_Witness ==
    /\ DOMAIN terrains = {1}
    /\ DOMAIN oceans = {1}
    /\ terrains[1].resolution = 4
    /\ Len(terrains[1].indices) = 96
    /\ SubSeq(terrains[1].indices, 31, 36) = <<6, 11, 7, 7, 11, 12>>
    /\ oceans[1].resolution = 2
    /\ last.op = "Ocean"
    /\ last.work = {"generateMesh"}
    /\ SubSeq(oceans[1].indices, 19, 24) = <<4, 7, 5, 5, 7, 8>>

\* C14: Ocean::update preserves the topology of the mesh: it changes only the
\* y of each position and the normals, while every position's x and z, the
\* uvs, the indices, indexCount, the wave list, resolution and size are the
\* same after the call as before it, however many updates came before
C14_UpdateKeepsTopology ==
    [][last'.op = "Ocean::update" =>
         /\ Len(oceans'[last'.id].positions) = Len(oceans[last'.id].positions)
         /\ \A i \in DOMAIN oceans[last'.id].positions :
              /\ oceans'[last'.id].positions[i].x = oceans[last'.id].positions[i].x
              /\ oceans'[last'.id].positions[i].z = oceans[last'.id].positions[i].z
         /\ oceans'[last'.id].uvs = oceans[last'.id].uvs
         /\ oceans'[last'.id].tbo = oceans[last'.id].tbo
         /\ oceans'[last'.id].indices = oceans[last'.id].indices
         /\ oceans'[last'.id].ebo = oceans[last'.id].ebo
         /\ oceans'[last'.id].indexCount = oceans[last'.id].indexCount
         /\ oceans'[last'.id].waves = oceans[last'.id].waves
         /\ oceans'[last'.id].resolution = oceans[last'.id].resolution
         /\ oceans'[last'.id].size = oceans[last'.id].size]_vars

\* a second update has moved the surface of an Ocean of resolution 2
C14_Witness ==
    /\ last.op = "Ocean::update"
    /\ last.id \in DOMAIN oceans
    /\ last.q.dt = 250
    /\ oceans[last.id].waveFrequency = Scale
    /\ oceans[last.id].time = MaxTime
    /\ oceans[last.id].resolution = 2
    /\ \E i \in DOMAIN oceans[last.id].positions : oceans[last.id].positions[i].y # 0

\* every vertex of Ocean o holds the Gerstner height and normal of its own
\* (x, z) at o.time
PatchedAtOwnTime(o) ==
    \A i \in DOMAIN o.positions :
        /\ o.positions[i].y =
             gerstnerWaveHeight(o, o.positions[i].x, o.positions[i].z, o.time)
        /\ o.normals[i] =
             gerstnerWaveNormal(o, o.positions[i].x, o.positions[i].z, o.time)

\* C15: each Ocean::update(dt) advances time by exactly dt * waveFrequency,
\* with the waveFrequency in effect at the call, and leaves every vertex with
\* the Gerstner height and normal of the new time, not of the old one
C15_UpdateSamplesNewTime ==
    [][last'.op = "Ocean::update" =>
         /\ oceans'[last'.id].time =
              oceans[last'.id].time + Mul(last'.q.dt, oceans[last'.id].waveFrequency)
         /\ PatchedAtOwnTime(oceans'[last'.id])]_vars

\* an update by 0.25 at waveFrequency 2 took the time from 0 to 0.5
C15_Witness ==
    /\ last.op = "Ocean::update"
    /\ last.id \in DOMAIN oceans
    /\ last.q.dt = 250
    /\ oceans[last.id].waveFrequency = 2 * Scale
    /\ oceans[last.id].time = 500
    /\ \E i \in DOMAIN oceans[last.id].positions : oceans[last.id].positions[i].y # 0

\* entity e2 is e after a statement that changed the position or the normal
\* buffer: the buffers now hold the whole arrays, the arrays of a whole pass
UploadsWholePass(e, e2) ==
    (e2.vbo # e.vbo \/ e2.nbo # e.nbo) =>
        /\ e2.positions = e.positions
        /\ e2.normals = e.normals
        /\ e2.vbo = e.positions
        /\ e2.nbo = e.normals
        /\ Len(e2.vbo) = NumVertices(e.resolution)
        /\ Len(e2.nbo) = NumVertices(e.resolution)

\* C16: in every pass that produces mesh data (the Terrain constructor,
\* Terrain::regenerate, the Ocean constructor, Ocean::updateMesh) positions
\* and normals reach the GPU buffers only after every vertex of the pass is
\* computed: a Terrain's buffers change only once generateGrid and
\* computeNormals of the pass have both run, an Ocean's only once generateMesh
\* or the vertex loop of updateMesh has run, and they then hold the arrays of
\* that pass whole
C16_UploadAfterWholePass ==
    [][/\ \A id \in DOMAIN terrains \cap DOMAIN terrains' :
            /\ UploadsWholePass(terrains[id], terrains'[id])
            /\ (terrains'[id].vbo # terrains[id].vbo \/ terrains'[id].nbo # terrains[id].nbo)
               => {"generateGrid", "computeNormals"} \subseteq last.work
       /\ \A id \in DOMAIN oceans \cap DOMAIN oceans' :
            /\ UploadsWholePass(oceans[id], oceans'[id])
            /\ (oceans'[id].vbo # oceans[id].vbo \/ oceans'[id].nbo # oceans[id].nbo)
               => (/\ last.work \cap {"generateMesh", "updateMesh"} # {}
                   /\ PatchedAtOwnTime(oceans'[id]) \/ last.op = "Ocean")]_vars

\* setHeightScale(20) on a Terrain built with height 0 has uploaded its new
\* mesh, and an Ocean has uploaded the patch of its first update
C16_Witness ==
    /\ last.op = "setHeightScale"
    /\ ~last.same
    /\ last.work = FullRebuild
    /\ terrains[1].maxHeight = 20 * Scale
    /\ terrains[1].vbo = terrains[1].positions
    /\ terrains[1].nbo = terrains[1].normals
    /\ \E i \in DOMAIN terrains[1].vbo : terrains[1].vbo[i].y # 0
    /\ DOMAIN oceans = {1}
    /\ oceans[1].time = MaxTime
    /\ \E i \in DOMAIN oceans[1].vbo : oceans[1].vbo[i].y # 0

\* C17: getHeightAt answers from the mesh as built and does not evaluate the
\* analytic field again: a query at the (x, z) of a vertex of an Ocean returns
\* the y stored in that vertex, whatever time the caller passes
C17_OceanHeightFromMesh ==
    (last.op = "Ocean::getHeightAt" /\ last.id \in DOMAIN oceans) =>
        \A i \in DOMAIN oceans[last.id].positions :
            (/\ oceans[last.id].positions[i].x = last.q.worldX
             /\ oceans[last.id].positions[i].z = last.q.worldZ)
            => last.q.ret = oceans[last.id].positions[i].y

\* C18: finalHeight is deterministic and free of side effects, so a
\* regenerate() that follows a completed pass with unchanged parameters
\* rebuilds the same mesh: at every statement of it the positions stay what
\* they were, the recomputed normals equal the ones uploaded before, the
\* buffers keep their contents, and the permutation table, the Voronoi cells
\* and the parameters are untouched
C18_RegenerateRepeats ==
    [][(last.op = "regenerate" /\ last'.op = "regenerate" /\ last'.work # last.work) =>
         /\ terrains'[last.id].positions = terrains[last.id].positions
         /\ Len(terrains'[last.id].normals) # 0 =>
              terrains'[last.id].normals = terrains[last.id].nbo
         /\ terrains'[last.id].vbo = terrains[last.id].vbo
         /\ terrains'[last.id].nbo = terrains[last.id].nbo
         /\ terrains'[last.id].voronoiCells = terrains[last.id].voronoiCells
         /\ terrains'[last.id].maxHeight = terrains[last.id].maxHeight
         /\ terrains'[last.id].type = terrains[last.id].type
         /\ terrains'[last.id].noiseFrequency = terrains[last.id].noiseFrequency
         /\ permutation' = permutation]_vars

\* a regenerate on unchanged parameters has run to its end on a Terrain with
\* relief
C18_Witness ==
    /\ last.op = "regenerate"
    /\ last.same
    /\ last.work = FullRebuild
    /\ terrains[1].resolution = MaxPassResolution
    /\ terrains[1].vbo = terrains[1].positions
    /\ \E i \in DOMAIN terrains[1].normals : terrains[1].normals[i].x # 0
    /\ \E i, j \in DOMAIN terrains[1].positions :
         terrains[1].positions[i].y # terrains[1].positions[j].y

\* C19: any two Oceans, whenever and in whatever order they were constructed,
\* updated and set, hold the same sequence of eight waves (two large, two
\* medium, four small), so with equal waveHeight and waveSpeed their
\* gerstnerWaveHeight agrees at every point and time
C19_SameWaves ==
    \A a \in DOMAIN oceans, b \in DOMAIN oceans :
        /\ Len(oceans[a].waves) = 8
        /\ \A i \in 1..2, j \in 3..4, k \in 5..8 :
             /\ oceans[a].waves[i].wavelength > oceans[a].waves[j].wavelength
             /\ oceans[a].waves[j].wavelength > oceans[a].waves[k].wavelength
        /\ oceans[a].waves = oceans[b].waves
        /\ (/\ a < b
            /\ oceans[a].waveHeight = oceans[b].waveHeight
            /\ oceans[a].waveSpeed = oceans[b].waveSpeed)
           => \A x \in SeaQueryCoords, t \in {0} \cup Dts :
                gerstnerWaveHeight(oceans[a], x, 0 - x, t) = gerstnerWaveHeight(oceans[b], x, 0 - x, t)

\* Ocean 1 is constructed after Ocean 2 was sped up and updated
C19_Witness ==
    /\ last.op = "Ocean"
    /\ last.id = 1
    /\ DOMAIN oceans = SeaIds
    /\ oceans[2].time = MaxTime
    /\ oceans[2].waveSpeed = 2 * Scale
    /\ oceans[1].waveSpeed = Scale

\* C20: a Terrain holds exactly the 64 Voronoi cells its constructor drew from
\* seed 12345 for its size, so any two Terrains of equal size hold the same
\* cells, and no later call (setType, setHeightScale, setNoiseFrequency,
\* regenerate, update, render, getHeightAt) changes them
C20_VoronoiCellsFixed ==
    [][/\ \A id \in DOMAIN terrains' :
            /\ Len(terrains'[id].voronoiCells) = 64
            /\ terrains'[id].voronoiCells = Cells[build.argOrder, terrains'[id].size]
       /\ \A id \in DOMAIN terrains \cap DOMAIN terrains' :
            terrains'[id].voronoiCells = terrains[id].voronoiCells]_vars

\* a VORONOI Terrain whose frequency was set to 2 has been queried
C20_Witness ==
    /\ last.op = "getHeightAt"
    /\ DOMAIN terrains = {1}
    /\ terrains[1].type = "VORONOI"
    /\ terrains[1].noiseFrequency = 2 * Scale
    /\ terrains[1].maxHeight = 20 * Scale
    /\ Len(terrains[1].voronoiCells) = 64
    /\ terrains[1].vbo = terrains[1].positions

\* Ocean o with its three visual parameters blanked: the mesh arrays, the
\* buffers, the wave list, time and every shaping parameter
Unpainted(o) ==
    [o EXCEPT !.waterColor = Vec3(0, 0, 0), !.foamColor = Vec3(0, 0, 0), !.transparency = 0]

\* C21: Terrain::update, Terrain::render and Terrain::getHeightAt leave the
\* Terrain as it was, Ocean::render and Ocean::getHeightAt leave the Ocean as
\* it was, and setWaterColor, setFoamColor and setTransparency change nothing
\* of the Ocean but the visual parameter they store: positions, normals, uvs,
\* indices and every shaping parameter are the same after each of these calls
C21_ReadersAndVisualSettersKeepMesh ==
    [][/\ last'.op \in {"update", "render", "getHeightAt"} => terrains' = terrains
       /\ last'.op \in {"Ocean::render", "Ocean::getHeightAt"} => oceans' = oceans
       /\ last'.op = "setWaterColor" =>
            oceans'[last'.id] = [oceans[last'.id] EXCEPT !.waterColor = oceans'[last'.id].waterColor]
       /\ last'.op = "setFoamColor" =>
            oceans'[last'.id] = [oceans[last'.id] EXCEPT !.foamColor = oceans'[last'.id].foamColor]
       /\ last'.op = "setTransparency" =>
            oceans'[last'.id] = [oceans[last'.id] EXCEPT !.transparency = oceans'[last'.id].transparency]
       /\ last'.op \in {"update", "render", "getHeightAt", "Ocean::render", "Ocean::getHeightAt",
                        "setWaterColor", "setFoamColor", "setTransparency"} =>
            /\ terrains' = terrains
            /\ Unpainted(oceans'[1]) = Unpainted(oceans[1])]_vars

\* the transparency of the scene's Ocean was changed after an update had
\* displaced its surface and a key had switched the Terrain to another type
C21_Witness ==
    /\ last.op = "setTransparency"
    /\ ~last.same
    /\ oceans[1].transparency = 700
    /\ oceans[1].time > 0
    /\ \E i \in DOMAIN oceans[1].positions : oceans[1].positions[i].y # 0
    /\ terrains[1].type = "CANYON"

\* -1, 0 or 1 as v is negative, zero or positive
SignOf(v) == IF v > 0 THEN 1 ELSE IF v < 0 THEN -1 ELSE 0

\* the normal component nc never has the sign opposite to s, and has sign s
\* wherever the product dc * c that decides it is at least 0.1 in size
FollowsSign(nc, s, dc, c) ==
    /\ SignOf(nc) * s >= 0
    /\ (s # 0 /\ Abs(Mul(dc, c)) >= Scale \div 10) => SignOf(nc) = s

\* normals a and b agree to within 0.05 in every component
SameNormal(a, b) ==
    /\ Abs(a.x - b.x) <= Scale \div 20
    /\ Abs(a.y - b.y) <= Scale \div 20
    /\ Abs(a.z - b.z) <= Scale \div 20

\* the sampled normal's x and z have the sign of -dir * cos(phi) when the
\* wave height has sign heightSign
NormalSignsFollowCos(q, heightSign) ==
    /\ FollowsSign(q.n.x,
                   0 - heightSign * SignOf(q.o.waves[1].direction.x)
                       * SignOf(Cos(wavePhase(q.o, q.o.waves[1], q.x, q.z, q.t))),
                   q.o.waves[1].direction.x,
                   Cos(wavePhase(q.o, q.o.waves[1], q.x, q.z, q.t)))
    /\ FollowsSign(q.n.z,
                   0 - heightSign * SignOf(q.o.waves[1].direction.y)
                       * SignOf(Cos(wavePhase(q.o, q.o.waves[1], q.x, q.z, q.t))),
                   q.o.waves[1].direction.y,
                   Cos(wavePhase(q.o, q.o.waves[1], q.x, q.z, q.t)))

\* C22 as stated: for an Ocean with a single wave component, each horizontal
\* component of gerstnerWaveNormal has the sign of -dir * cos(phi) at every
\* t, and the normals at t and at t + 2 pi / w coincide, w = speed * waveSpeed
C22_NormalPeriodTwoPiOverW ==
    last.op = "gerstnerWaveNormal" =>
        /\ NormalSignsFollowCos(last.q, 1)
        /\ SameNormal(last.q.n,
                      gerstnerWaveNormal(last.q.o, last.q.x, last.q.z,
                          last.q.t + Div(2 * Pi, Mul(last.q.o.waves[1].speed, last.q.o.waveSpeed))))

\* C22, amended: for an Ocean with a single wave component, each horizontal
\* component of gerstnerWaveNormal has the sign of -waveHeight * dir * cos(phi)
\* at every t (that of -dir * cos(phi) for a positive waveHeight, none for
\* waveHeight 0), and the normals at t and at t + wavelength / w, which is
\* t + 2 pi / (k w), coincide
C22_NormalPeriodWavelengthOverW ==
    last.op = "gerstnerWaveNormal" =>
        /\ NormalSignsFollowCos(last.q, SignOf(last.q.o.waveHeight))
        /\ SameNormal(last.q.n,
                      gerstnerWaveNormal(last.q.o, last.q.x, last.q.z,
                          last.q.t + Div(last.q.o.waves[1].wavelength,
                                         Mul(last.q.o.waves[1].speed, last.q.o.waveSpeed))))

\* the first wave alone, half a period on: cos(phi) has turned negative and
\* the normal leans along the wave's direction instead of against it
C22_Witness ==
    /\ last.op = "gerstnerWaveNormal"
    /\ last.q.o.waveHeight = 2 * Scale
    /\ last.q.o.waves[1].wavelength = 30 * Scale
    /\ last.q.t > 0
    /\ Cos(wavePhase(last.q.o, last.q.o.waves[1], last.q.x, last.q.z, last.q.t)) < -Half
    /\ last.q.n.x > 0
    /\ last.q.n.z > 0

\* the five bands of the layered profile as ranges of the island mask
ElevationBands == {"deep ocean", "underwater slope", "coastline", "inland", "peak or crater"}

\* island mask s lies in the range of band
InBand(band, s) ==
    CASE band = "deep ocean"       -> s < 50
      [] band = "underwater slope" -> 50 <= s /\ s < 250
      [] band = "coastline"        -> 250 <= s /\ s < 400
      [] band = "inland"           -> 400 <= s /\ s <= 850
      [] band = "peak or crater"   -> 850 < s

\* the elevation of band for the sampled point q
BandElevation(band, q) ==
    CASE band = "deep ocean"       -> OceanFloor * Scale
      [] band = "underwater slope" ->
           Mix(OceanFloor * Scale, -3 * Scale, Pow(Div(q.islandShape - 50, 200), 1500))
      [] band = "coastline"        ->
           layeredCoast(Tables[1], q.t, q.x, q.y, q.coastType, Div(q.islandShape - 250, 150))
      [] OTHER                     ->
           layeredLand(Tables[1], q.t, q.x, q.y, q.islandShape, q.baseNoise, q.coastType,
                       Div(q.islandShape - 400, 600))

\* C23: in the layered revision the five elevation bands partition the range
\* of the island mask, so that one band and no other gives the elevation of a
\* point; where islandMask < 0.05 finalHeight is the ocean floor -15 whatever
\* type, maxHeight, noiseFrequency and the coastline variation are; and at
\* islandMask = 0.05 the underwater slope yields -15 as well
C23_BandsPartitionAndDeepFloor ==
    /\ (last.op = "finalHeight" /\ last.q.islandShape < 50) => last.q.ret = OceanFloor * Scale
    /\ last.op = "layeredProfile" =>
         /\ Cardinality({band \in ElevationBands : InBand(band, last.q.islandShape)}) = 1
         /\ \A band \in ElevationBands :
              InBand(band, last.q.islandShape) => last.q.ret = BandElevation(band, last.q)
         /\ InBand("inland", last.q.islandShape) =>
              layeredPeak(last.q.islandShape, last.q.baseNoise, 0) = 0
         /\ InBand("peak or crater", last.q.islandShape) =>
              layeredPeak(last.q.islandShape, last.q.baseNoise, 0) # 0
         /\ last.q.islandShape <= 50 => last.q.ret = OceanFloor * Scale

\* finalHeight of a VORONOI Terrain of height 20 and noise frequency 2, at a
\* point far enough from the centre for the island mask to be under 0.05
C23_Witness ==
    /\ last.op = "finalHeight"
    /\ last.q.t.type = "VORONOI"
    /\ last.q.t.maxHeight = 20 * Scale
    /\ last.q.t.noiseFrequency = 2 * Scale
    /\ last.q.islandShape < 50
    /\ last.q.ret = OceanFloor * Scale

\* Ocean o as generateMesh leaves it: time 0, every vertex at y = 0 with the
\* normal (0, 1, 0), and the position and normal buffers holding those values
FlatSea(o) ==
    /\ o.time = 0
    /\ Len(o.positions) = NumVertices(o.resolution)
    /\ Len(o.normals) = NumVertices(o.resolution)
    /\ \A i \in DOMAIN o.positions : o.positions[i].y = 0
    /\ \A i \in DOMAIN o.normals : o.normals[i] = Vec3(0, Scale, 0)
    /\ o.vbo = o.positions
    /\ o.nbo = o.normals

\* C24: from the end of the Ocean constructor until the first update(dt) the
\* mesh is flat: the constructor leaves every vertex at y = 0 with the normal
\* (0, 1, 0) and time = 0, uploads exactly those values and displaces nothing,
\* and every call other than update keeps a flat Ocean flat
C24_FlatUntilFirstUpdate ==
    [][/\ last'.op = "Ocean" => FlatSea(oceans'[last'.id])
       /\ \A id \in DOMAIN oceans \cap DOMAIN oceans' :
            (FlatSea(oceans[id]) /\ last'.op # "Ocean::update") => FlatSea(oceans'[id])]_vars

\* a constructed Ocean of resolution 2 has had its wave height set and is
\* still flat, though the waves at its vertices are not
C24_Witness ==
    /\ last.op = "setWaveHeight"
    /\ ~last.same
    /\ last.id \in DOMAIN oceans
    /\ oceans[last.id].resolution = 2
    /\ FlatSea(oceans[last.id])
    /\ \E i \in DOMAIN oceans[last.id].positions :
         gerstnerWaveHeight(oceans[last.id], oceans[last.id].positions[i].x,
                            oceans[last.id].positions[i].z, 0) # 0

\* C25: in the island demo every press of the Z key raises the Ocean's
\* waveHeight strictly above the value it had before the press
C25_ZKeyRaisesWaveHeight ==
    [][(last'.op = "handleKeyboard" /\ last'.q.key = 90 /\ last'.q.action = 1) =>
          oceans'[1].waveHeight > oceans[1].waveHeight]_vars

\* C26: setWaveSpeed, setWaveHeight and setWaveFrequency only store their
\* argument: positions, normals, time, the uploaded buffers and every other
\* member are the same after the call as before it, and the stored value
\* shows in the mesh at the next update, which patches every vertex with it
C26_WaveSettersOnlyStore ==
    [][/\ last'.op = "setWaveSpeed" =>
            oceans'[last'.id] = [oceans[last'.id] EXCEPT !.waveSpeed = oceans'[last'.id].waveSpeed]
       /\ last'.op = "setWaveHeight" =>
            oceans'[last'.id] = [oceans[last'.id] EXCEPT !.waveHeight = oceans'[last'.id].waveHeight]
       /\ last'.op = "setWaveFrequency" =>
            oceans'[last'.id] = [oceans[last'.id] EXCEPT !.waveFrequency = oceans'[last'.id].waveFrequency]
       /\ last'.op = "Ocean::update" =>
            /\ oceans'[last'.id].waveSpeed = oceans[last'.id].waveSpeed
            /\ oceans'[last'.id].waveHeight = oceans[last'.id].waveHeight
            /\ oceans'[last'.id].waveFrequency = oceans[last'.id].waveFrequency
            /\ PatchedAtOwnTime(oceans'[last'.id])]_vars

\* the wave height of an Ocean already displaced by an update was changed;
\* its mesh still holds the surface of the old wave height
C26_Witness ==
    /\ last.op = "setWaveHeight"
    /\ ~last.same
    /\ last.id \in DOMAIN oceans
    /\ oceans[last.id].time > 0
    /\ oceans[last.id].vbo = oceans[last.id].positions
    /\ ~PatchedAtOwnTime(oceans[last.id])

\* C27: after any sequence of constructions and destructions of Terrains
\* (resp. Oceans), the static instanceCount equals the number of live
\* instances and is never negative, and the shared shader is non-null and
\* (for Terrain) permutation has 512 entries exactly when instanceCount > 0
C27_InstanceCountMatchesLive ==
    /\ instanceCount = Cardinality(DOMAIN terrains)
    /\ instanceCount >= 0
    /\ (shader /\ Len(permutation) = PermSize) <=> instanceCount > 0
    /\ shader <=> instanceCount > 0
    /\ oceanInstanceCount = Cardinality(DOMAIN oceans)
    /\ oceanInstanceCount >= 0
    /\ oceanShader <=> oceanInstanceCount > 0

\* C28: with a permutation of 512 entries holding values in 0..255, every
\* lookup of perlin(x, y) reads permutation at an index in 0..511, for
\* negative x or y too: X and Y lie in 0..255, the first-level indices A + 1
\* and B + 1 are at most 511, and AA, AB, BA and BB lie in 0..255
C28_PerlinLookupsInTable ==
    last.op = "perlin" =>
        /\ Len(Tables[last.q.perm]) = PermSize
        /\ \A i \in DOMAIN Tables[last.q.perm] : Tables[last.q.perm][i] \in 0..(PermHalf - 1)
        /\ last.q.lookups.X \in 0..(PermHalf - 1)
        /\ last.q.lookups.Y \in 0..(PermHalf - 1)
        /\ last.q.lookups.A + 1 <= PermSize - 1
        /\ last.q.lookups.B + 1 <= PermSize - 1
        /\ {last.q.lookups.X, last.q.lookups.X + 1, last.q.lookups.A, last.q.lookups.A + 1,
            last.q.lookups.B, last.q.lookups.B + 1} \subseteq 0..(PermSize - 1)
        /\ {last.q.lookups.AA, last.q.lookups.AB, last.q.lookups.BA, last.q.lookups.BB}
               \subseteq 0..(PermHalf - 1)

\* perlin at a negative y, whose cell row is 255, read the last entry of
\* the table
C28_Witness ==
    /\ last.op = "perlin"
    /\ last.q.y < 0
    /\ last.q.lookups.Y = PermHalf - 1
    /\ PermSize - 1 \in {last.q.lookups.A + 1, last.q.lookups.B + 1}

\* C29: OceanScene::handleKeyboard writes only inside the keys array: for
\* every key code delivered with a press or a release, GLFW_KEY_UNKNOWN and
\* the highest key code GLFW_KEY_LAST included, the index written lies in
\* 0 .. GLFW_KEY_LAST - 1
C29_KeyWritesInsideArray ==
    (last.op = "handleKeyboard" /\ last.q.wrote) =>
        (last.q.index \in 0..(GLFW_KEY_LAST - 1) /\ last.q.hit = "keys")

====
